---- MODULE Spec2Model ----
(***************************************************************************)
(* Verification model of the HR backend's pay-equity statistics            *)
(* (services/fairness_utils.py).                                           *)
(*                                                                         *)
(* Numbers.  The code computes in IEEE doubles.  The model computes in     *)
(* exact rationals <<n, d>> in lowest terms with d > 0, extended with the  *)
(* three IEEE specials that the code can produce: NaN = <<0,0>>,           *)
(* +inf = <<1,0>>, -inf = <<-1,0>>.  numpy division follows IEEE (x/0 is   *)
(* inf or NaN); division of Python floats raises ZeroDivisionError and is  *)
(* modelled by the guard of the action that performs it.                   *)
(***************************************************************************)
EXTENDS Integers, Sequences, FiniteSets, TLC

\* ------------------------------------------------------------------------
\* Bounds of the model
\* ------------------------------------------------------------------------
MaxLen == 3          \* longest salaries / groups / timestamps array
MaxSalary == 1       \* salaries are drawn from 0..MaxSalary

\* The group labels of the observations; "" is the falsy label.
GroupLabels == {"", "A", "B"}

\* ------------------------------------------------------------------------
\* Exact arithmetic with IEEE specials
\* ------------------------------------------------------------------------
Abs(x) == IF x < 0 THEN -x ELSE x

Sign(x) == IF x < 0 THEN -1 ELSE IF x > 0 THEN 1 ELSE 0

RECURSIVE Gcd(_, _)
Gcd(a, b) == IF b = 0 THEN a ELSE Gcd(b, a % b)

RNorm(n, d) ==
    IF d = 0 THEN <<Sign(n), 0>>
    ELSE LET g == Gcd(Abs(n), Abs(d))
             s == Sign(d)
         IN  <<(s * n) \div g, (s * d) \div g>>

R(n) == <<n, 1>>
NaN == <<0, 0>>
PosInf == <<1, 0>>
NegInf == <<-1, 0>>

IsNaN(a) == a = NaN
IsFinite(a) == a[2] # 0

RNeg(a) == <<-a[1], a[2]>>

RAdd(a, b) ==
    IF IsNaN(a) \/ IsNaN(b) THEN NaN
    ELSE IF ~IsFinite(a) /\ ~IsFinite(b) THEN (IF a = b THEN a ELSE NaN)
    ELSE IF ~IsFinite(a) THEN a
    ELSE IF ~IsFinite(b) THEN b
    ELSE RNorm(a[1] * b[2] + b[1] * a[2], a[2] * b[2])

RSub(a, b) == RAdd(a, RNeg(b))

RMul(a, b) == RNorm(a[1] * b[1], a[2] * b[2])

\* IEEE division, as numpy performs it: x/0 is +-inf, 0/0 is NaN.
RDiv(a, b) ==
    IF b[1] < 0 THEN RNorm(-(a[1] * b[2]), a[2] * (-b[1]))
    ELSE RNorm(a[1] * b[2], a[2] * b[1])

RAbs(a) == <<Abs(a[1]), a[2]>>

\* IEEE comparison: every comparison with NaN is false.
RLt(a, b) ==
    IF IsNaN(a) \/ IsNaN(b) THEN FALSE
    ELSE IF ~IsFinite(a) /\ ~IsFinite(b) THEN a[1] < b[1]
    ELSE a[1] * b[2] < b[1] * a[2]

RLe(a, b) == ~IsNaN(a) /\ ~IsNaN(b) /\ (a = b \/ RLt(a, b))
RGt(a, b) == RLt(b, a)
RGe(a, b) == RLe(b, a)

\* Python's max(x, y) on floats: y replaces x only when y > x.
RMax(a, b) == IF RGt(b, a) THEN b ELSE a

\* ------------------------------------------------------------------------
\* Sequence helpers (list comprehensions, zip, numpy reductions)
\* ------------------------------------------------------------------------
Min(a, b) == IF a < b THEN a ELSE b

RECURSIVE SumSeq(_)
SumSeq(s) == IF s = <<>> THEN 0 ELSE Head(s) + SumSeq(Tail(s))

RECURSIVE SumSq(_)
SumSq(s) == IF s = <<>> THEN 0 ELSE Head(s) * Head(s) + SumSq(Tail(s))

RECURSIVE Insert(_, _)
Insert(x, s) ==
    IF s = <<>> THEN <<x>>
    ELSE IF x <= Head(s) THEN <<x>> \o s
    ELSE <<Head(s)>> \o Insert(x, Tail(s))

RECURSIVE SortAsc(_)
SortAsc(s) == IF s = <<>> THEN <<>> ELSE Insert(Head(s), SortAsc(Tail(s)))

\* [xs[i] for i in indices], indices ascending
RECURSIVE Pick(_, _)
Pick(xs, indices) ==
    IF indices = <<>> THEN <<>>
    ELSE <<xs[Head(indices)]>> \o Pick(xs, Tail(indices))

\* [i for i, grp in enumerate(groups) if grp == g]   (1-based here)
RECURSIVE IndicesFrom(_, _, _)
IndicesFrom(gs, g, i) ==
    IF i > Len(gs) THEN <<>>
    ELSE (IF gs[i] = g THEN <<i>> ELSE <<>>) \o IndicesFrom(gs, g, i + 1)

IndicesOf(gs, g) == IndicesFrom(gs, g, 1)

\* [s for s, grp in zip(salaries, groups) if grp == g]: zip stops at the
\* shorter of the two lists.
RECURSIVE ZipFrom(_, _, _, _)
ZipFrom(ss, gs, g, i) ==
    IF i > Min(Len(ss), Len(gs)) THEN <<>>
    ELSE (IF gs[i] = g THEN <<ss[i]>> ELSE <<>>) \o ZipFrom(ss, gs, g, i + 1)

ZipSalaries(ss, gs, g) == ZipFrom(ss, gs, g, 1)

\* np.mean of a list of integers (NaN for the empty list)
NpMean(xs) == RNorm(SumSeq(xs), Len(xs))

MinOf(S) == CHOOSE x \in S : \A y \in S : x <= y

Range(s) == {s[i] : i \in DOMAIN s}

\* The values less their minimum; deviations from the mean are unchanged
\* by the shift, which keeps the sums of squares small.
Shifted(xs) ==
    IF xs = <<>> THEN <<>>
    ELSE [i \in DOMAIN xs |-> xs[i] - MinOf(Range(xs))]

\* n * sum of squared deviations from the mean, an integer
SSn(xs) ==
    LET ys == Shifted(xs)
    IN  Len(ys) * SumSq(ys) - SumSeq(ys) * SumSeq(ys)

\* np.var: population variance (ddof = 0)
NpVar(xs) == RNorm(SSn(xs), Len(xs) * Len(xs))

\* np.median: middle of the sorted values, mean of the two middle ones
NpMedian(xs) ==
    LET s == SortAsc(xs)
        n == Len(xs)
    IN  IF n = 0 THEN NaN
        ELSE IF n % 2 = 1 THEN R(s[(n + 1) \div 2])
        ELSE RNorm(s[n \div 2] + s[n \div 2 + 1], 2)

\* ------------------------------------------------------------------------
\* compute_statistical_significance
\*
\* The t statistic and Cohen's d are quotients by a square root.  The model
\* keeps each as its signed square (sign(x) * x^2), which is rational and
\* has the same sign, the same zero, the same NaN/inf cases and the same
\* order as x.
\* ------------------------------------------------------------------------

\* COHEN_D_THRESHOLDS, in tenths
COHEN_D_SMALL == 2
COHEN_D_MEDIUM == 5
COHEN_D_LARGE == 8

\* Square of a threshold given in tenths
ThresholdSq(tenths) == RNorm(tenths * tenths, 100)

\* Squares of the two-sided 5% critical values of Student's t for 1..10
\* degrees of freedom, in thousandths: p_value < ALPHA iff t^2 exceeds it.
TCritSqThousandths ==
    <<161448, 18513, 10128, 7709, 6608, 5987, 5591, 5318, 5117, 4965>>

TCritSq(df) == RNorm(TCritSqThousandths[df], 1000)

\* signed square of (diff / sqrt(sq))
SignedSqQuot(diff, sq) == RDiv(RMul(diff, RAbs(diff)), sq)

\* scipy.stats.ttest_ind(a, b), equal variances: the signed square of t.
\* scipy takes the undefined sample variance of a single observation as 0,
\* so that the pooled variance stays defined unless both samples are single
\* observations (df = 0).
TTestIndSq(a, b) ==
    LET n1 == Len(a)
        n2 == Len(b)
        v1 == IF n1 = 1 THEN R(0) ELSE RDiv(RNorm(SSn(a), n1), R(n1 - 1))
        v2 == IF n2 = 1 THEN R(0) ELSE RDiv(RNorm(SSn(b), n2), R(n2 - 1))
        df == n1 + n2 - 2
        svar == RDiv(RAdd(RMul(R(n1 - 1), v1), RMul(R(n2 - 1), v2)), R(df))
        denomSq == RMul(svar, RAdd(RNorm(1, n1), RNorm(1, n2)))
    IN  SignedSqQuot(RSub(NpMean(a), NpMean(b)), denomSq)

\* p_value < ALPHA for the two-sided test with df degrees of freedom
PValueBelowAlpha(tSq, df) ==
    IF IsNaN(tSq) THEN FALSE
    ELSE IF ~IsFinite(tSq) THEN TRUE
    ELSE RGt(RAbs(tSq), TCritSq(df))

\* Variant of EffectSizeLabel whose loop tries the thresholds in ascending
\* order, so that the first one reached is "small"
EffectSizeLabelAscending(dSq) ==
    IF RGe(RAbs(dSq), ThresholdSq(COHEN_D_SMALL)) THEN "small"
    ELSE IF RGe(RAbs(dSq), ThresholdSq(COHEN_D_MEDIUM)) THEN "medium"
    ELSE IF RGe(RAbs(dSq), ThresholdSq(COHEN_D_LARGE)) THEN "large"
    ELSE "negligible"

\* the loop over (large, medium, small) that labels |cohens_d|
EffectSizeLabel(dSq) ==
    IF RGe(RAbs(dSq), ThresholdSq(COHEN_D_LARGE)) THEN "large"
    ELSE IF RGe(RAbs(dSq), ThresholdSq(COHEN_D_MEDIUM)) THEN "medium"
    ELSE IF RGe(RAbs(dSq), ThresholdSq(COHEN_D_SMALL)) THEN "small"
    ELSE "negligible"

\* pooled_sd ** 2 of line 85: population variances weighted by n - 1
PooledVar(a, b) ==
    LET n1 == Len(a)
        n2 == Len(b)
    IN  RDiv(RAdd(RMul(R(n1 - 1), NpVar(a)), RMul(R(n2 - 1), NpVar(b))),
             R(n1 + n2 - 2))

\* Variant of CohensDSq that standardises the difference of the means by the
\* mean of the second group instead of the pooled standard deviation
CohensDSqRelative(a, b) ==
    SignedSqQuot(RSub(NpMean(a), NpMean(b)), RMul(NpMean(b), NpMean(b)))

\* cohens_d of line 86, as its signed square
CohensDSq(a, b) == SignedSqQuot(RSub(NpMean(a), NpMean(b)), PooledVar(a, b))

compute_statistical_significance(group1_data, group2_data) ==
    LET tSq == TTestIndSq(group1_data, group2_data)
        dSq == CohensDSq(group1_data, group2_data)
    IN  [t_statistic |-> tSq,
         cohens_d    |-> dSq,
         effect_size |-> EffectSizeLabel(dSq),
         significant |-> PValueBelowAlpha(tSq,
                             Len(group1_data) + Len(group2_data) - 2)]

\* ------------------------------------------------------------------------
\* compute_temporal_trend
\* ------------------------------------------------------------------------

\* Optional values: None is <<>>, a present value x is <<x>>.
None == <<>>
Some(x) == <<x>>

\* days = [(t - t0).days for t in timestamps], t0 = min(timestamps)
DaysSince(times) == [i \in DOMAIN times |-> times[i] - MinOf(Range(times))]

RECURSIVE SumProd(_, _)
SumProd(xs, ys) ==
    IF xs = <<>> THEN 0
    ELSE Head(xs) * Head(ys) + SumProd(Tail(xs), Tail(ys))

\* n * sum((x - mean x) * (y - mean y))
SPn(xs, ys) ==
    LET us == Shifted(xs)
        ws == Shifted(ys)
    IN  Len(us) * SumProd(us, ws) - SumSeq(us) * SumSeq(ws)

\* LinearRegression().fit(X, y).coef_[0]: the least-squares slope, and the
\* minimum-norm solution 0 when every x is the same.
OlsSlope(xs, ys) ==
    IF SSn(xs) = 0 THEN R(0) ELSE RNorm(SPn(xs, ys), SSn(xs))

\* r2_score(y, model.predict(X)): undefined (NaN) for fewer than two
\* samples, 1 for a constant y that is predicted exactly, else
\* 1 - SS_res / SS_tot.
OlsR2(xs, ys) ==
    IF Len(ys) < 2 THEN NaN
    ELSE IF SSn(ys) = 0 THEN R(1)
    ELSE IF SSn(xs) = 0 THEN R(0)
    ELSE RNorm(SPn(xs, ys) * SPn(xs, ys), SSn(xs) * SSn(ys))

compute_temporal_trend(values, times) ==
    LET days == DaysSince(times)
        slope == OlsSlope(days, values)
        r2 == OlsR2(days, values)
    IN  [slope |-> slope,
         r2 |-> r2,
         trend_direction |-> IF RGt(slope, R(0)) THEN "increasing"
                             ELSE "decreasing",
         significant |-> RGt(r2, RNorm(6, 10))]

\* ------------------------------------------------------------------------
\* _compute_group_statistics
\* ------------------------------------------------------------------------

\* np.percentile(xs, q), linear interpolation between closest ranks
NpPercentile(xs, q) ==
    LET s == SortAsc(xs)
        h == (Len(xs) - 1) * q
        lo == h \div 100 + 1
        fr == h % 100
    IN  IF fr = 0 THEN R(s[lo])
        ELSE RAdd(R(s[lo]), RMul(RNorm(fr, 100), R(s[lo + 1] - s[lo])))

\* `if timestamps:` -- None and the empty list are both falsy
Truthy(opt) == opt # None /\ opt[1] # <<>>

\* The statistics of one group, without the trend; std_salary is kept as
\* its square.
GroupStatsBase(g_salaries) ==
    [mean_salary   |-> NpMean(g_salaries),
     median_salary |-> NpMedian(g_salaries),
     std_salary    |-> NpVar(g_salaries),
     count         |-> Len(g_salaries),
     quartiles     |-> <<NpPercentile(g_salaries, 25),
                         NpPercentile(g_salaries, 50),
                         NpPercentile(g_salaries, 75)>>]

\* The exception _compute_group_statistics raises on these arguments, or
\* "" when it returns.
GroupStatsError(sal, indices, times, sklearn) ==
    IF \E k \in 1..Len(indices) : indices[k] > Len(sal) THEN "IndexError"
    ELSE IF ~Truthy(times) THEN ""
    ELSE IF \E k \in 1..Len(indices) : indices[k] > Len(times[1])
         THEN "IndexError"
    ELSE IF ~sklearn THEN "ImportError"
    ELSE ""

\* Variant of _compute_group_statistics that pairs the group's salaries with
\* the first len(indices) timestamps instead of the group's own
_compute_group_statistics_first_times(sal, indices, times) ==
    LET g_salaries == Pick(sal, indices)
        base == GroupStatsBase(g_salaries)
    IN  IF Truthy(times)
        THEN base @@ [trend |-> compute_temporal_trend(
                                    g_salaries,
                                    SubSeq(times[1], 1, Len(indices)))]
        ELSE base

_compute_group_statistics(sal, indices, times) ==
    LET g_salaries == Pick(sal, indices)
        base == GroupStatsBase(g_salaries)
    IN  IF Truthy(times)
        THEN base @@ [trend |-> compute_temporal_trend(
                                    g_salaries, Pick(times[1], indices))]
        ELSE base

\* ------------------------------------------------------------------------
\* _compute_group_gaps
\* ------------------------------------------------------------------------

\* Variant of GapPct that divides by the group's own median
GapPctOfGroupMedian(refMedian, gMedian) ==
    RMul(RDiv(RSub(refMedian, gMedian), gMedian), R(100))

\* gap_pct of lines 145-147, a division of Python floats; the caller has
\* excluded a zero reference median, on which Python raises.
GapPct(refMedian, gMedian) ==
    RMul(RDiv(RSub(refMedian, gMedian), refMedian), R(100))

\* The exception _compute_group_gaps raises, or "" when it returns: the
\* division raises for the first label other than the reference.
GroupGapsError(stats, ref, labels) ==
    IF labels \ {ref} # {} /\ stats[ref].median_salary = R(0)
    THEN "ZeroDivisionError"
    ELSE ""

_compute_group_gaps(stats, sal, grps, ref, labels) ==
    LET ref_salaries == ZipSalaries(sal, grps, ref)
    IN  [g \in labels \ {ref} |->
            [gap_percentage |->
                 GapPct(stats[ref].median_salary, stats[g].median_salary),
             statistical_significance |->
                 compute_statistical_significance(
                     ref_salaries, ZipSalaries(sal, grps, g)),
             reference_group |-> ref]]

\* ------------------------------------------------------------------------
\* calculate_overall_fairness_score
\*
\* A dict is a function on its keys; the empty dict is <<>>.
\* ------------------------------------------------------------------------
EmptyDict == <<>>

HasKey(d, k) == k \in DOMAIN d

RECURSIVE MaxAbsGapOver(_, _)
MaxAbsGapOver(gapsDict, keys) ==
    IF keys = {} THEN R(0)
    ELSE LET k == CHOOSE x \in keys : TRUE
         IN  RMax(RAbs(gapsDict[k].gap_percentage),
                  MaxAbsGapOver(gapsDict, keys \ {k}))

\* max((abs(g["gap_percentage"]) for g in gaps.values()), default=0)
MaxAbsGap(gapsDict) == MaxAbsGapOver(gapsDict, DOMAIN gapsDict)

\* Variant of GapScore without the clamp at 0
GapScoreUnclamped(gapsDict) ==
    RSub(R(1), RDiv(MaxAbsGap(gapsDict), R(20)))

\* gap_score = max(0, 1 - (max_gap / 20))
GapScore(gapsDict) ==
    RMax(R(0), RSub(R(1), RDiv(MaxAbsGap(gapsDict), R(20))))

RECURSIVE SumBiasScores(_, _)
SumBiasScores(metrics, attrs) ==
    IF attrs = {} THEN R(0)
    ELSE LET a == CHOOSE x \in attrs : TRUE
             dp_score == RSub(R(1), RAbs(metrics[a].overall.demographic_parity))
             eo_score == RSub(R(1), RAbs(metrics[a].overall.equalized_odds))
         IN  RAdd(RAdd(dp_score, eo_score),
                  SumBiasScores(metrics, attrs \ {a}))

\* np.mean(bias_scores): two scores for each attribute
BiasScore(metrics) ==
    RDiv(SumBiasScores(metrics, DOMAIN metrics),
         R(2 * Cardinality(DOMAIN metrics)))

\* Variant of TrendScore without the negation of the flag
TrendScoreInverted(trends) ==
    IF trends.increasing_disparity THEN R(1) ELSE RNorm(1, 2)

\* trend_score = 1 if not trends["increasing_disparity"] else 0.5
TrendScore(trends) ==
    IF ~trends.increasing_disparity THEN R(1) ELSE RNorm(1, 2)

\* score_components: the (component, score) pairs in the order appended
ScoreComponents(ar) ==
    (IF HasKey(ar, "pay_gap")
     THEN <<<<"pay_gap", GapScore(ar.pay_gap.gaps)>>>> ELSE <<>>)
    \o (IF HasKey(ar, "bias_metrics") /\ DOMAIN ar.bias_metrics # {}
        THEN <<<<"bias_metrics", BiasScore(ar.bias_metrics)>>>> ELSE <<>>)
    \o (IF HasKey(ar, "trends") /\ HasKey(ar.trends, "increasing_disparity")
        THEN <<<<"trend", TrendScore(ar.trends)>>>> ELSE <<>>)

\* Variant of ComponentWeight in which the trend weight is filed under
\* "trends", so that the lookup of "trend" falls back to the default
ComponentWeightMisfiled(component) ==
    IF component = "pay_gap" THEN RNorm(4, 10)
    ELSE IF component = "bias_metrics" THEN RNorm(3, 10)
    ELSE IF component = "trends" THEN RNorm(3, 10)
    ELSE R(1)

\* weights.get(component, 1)
ComponentWeight(component) ==
    IF component = "pay_gap" THEN RNorm(4, 10)
    ELSE IF component = "bias_metrics" THEN RNorm(3, 10)
    ELSE IF component = "trend" THEN RNorm(3, 10)
    ELSE R(1)

RECURSIVE WeightedSum(_)
WeightedSum(comps) ==
    IF comps = <<>> THEN R(0)
    ELSE RAdd(RMul(ComponentWeight(Head(comps)[1]), Head(comps)[2]),
              WeightedSum(Tail(comps)))

RECURSIVE TotalWeight(_)
TotalWeight(comps) ==
    IF comps = <<>> THEN R(0)
    ELSE RAdd(ComponentWeight(Head(comps)[1]), TotalWeight(Tail(comps)))

calculate_overall_fairness_score(ar) ==
    LET score_components == ScoreComponents(ar)
    IN  IF score_components # <<>>
        THEN RDiv(WeightedSum(score_components), TotalWeight(score_components))
        ELSE R(0)

\* ------------------------------------------------------------------------
\* generate_fairness_report and its helpers
\* ------------------------------------------------------------------------

\* d.get(k, default)
DictGet(d, k, default) == IF HasKey(d, k) THEN d[k] ELSE default

\* Defaults of the keyword arguments of the trend helpers
MIN_PERIODS == 4
SEASONAL_PERIOD == 12
Z_THRESHOLD == 2

\* np.arange(len(values))
Arange(n) == [i \in 1..n |-> i - 1]

\* slope of np.polyfit(x, y, 1) with x = 0, 1, ..
PolyfitSlope(values) ==
    RNorm(SPn(Arange(Len(values)), values), SSn(Arange(Len(values))))

\* r_squared = 1 - sum((y - fit) ** 2) / sum((y - mean(y)) ** 2); the
\* residual sum of squares of the least-squares line is the total sum less
\* the part the line explains.  For a constant y the quotient is 0 / 0.
PolyfitR2(values) ==
    LET x == Arange(Len(values))
        ssTot == R(SSn(values))
        ssRes == RSub(ssTot, RNorm(SPn(x, values) * SPn(x, values), SSn(x)))
    IN  RSub(R(1), RDiv(ssRes, ssTot))

\* The entry of one metric in the result of identify_long_term_trends
LongTermTrend(values) ==
    LET slope == PolyfitSlope(values)
        r_squared == PolyfitR2(values)
    IN  [direction |-> IF RGt(slope, R(0)) THEN "increasing" ELSE "decreasing",
         strength |-> RAbs(slope),
         significance |-> r_squared,
         concerning |-> RGt(slope, R(0)) /\ RGt(r_squared, RNorm(7, 10))]

identify_long_term_trends(trends) ==
    IF ~HasKey(trends, "historical_metrics")
    THEN [status |-> "insufficient_data"]
    ELSE LET metrics == trends.historical_metrics
         IN  [m \in {k \in DOMAIN metrics : Len(metrics[k]) >= MIN_PERIODS}
                 |-> LongTermTrend(metrics[m])]

\* seasonal_diffs: data[i + period] - data[i]
SeasonalDiffs(values) ==
    [i \in 1..(Len(values) - SEASONAL_PERIOD)
        |-> values[i + SEASONAL_PERIOD] - values[i]]

\* The entry of one metric in the result of detect_seasonal_patterns;
\* consistency = std / mean(|diffs|) is below 0.5 when
\* var < mean(|diffs|)^2 / 4, and is NaN when every difference is 0.
SeasonalPattern(values) ==
    LET diffs == SeasonalDiffs(values)
        meanAbs == NpMean([i \in DOMAIN diffs |-> Abs(diffs[i])])
    IN  [seasonal_effect |-> NpMean(diffs),
         significant |-> /\ RGt(meanAbs, R(0))
                         /\ RLt(RMul(R(4), NpVar(diffs)),
                                RMul(meanAbs, meanAbs))]

detect_seasonal_patterns(trends) ==
    IF ~HasKey(trends, "historical_metrics")
    THEN [status |-> "insufficient_data"]
    ELSE LET metrics == trends.historical_metrics
         IN  [m \in {k \in DOMAIN metrics :
                        Len(metrics[k]) >= SEASONAL_PERIOD * 2}
                 |-> SeasonalPattern(metrics[m])]

\* np.nonzero(z_scores > z_threshold): |x - mean| / std > z when
\* (x - mean)^2 > z^2 * var; with std = 0 every z-score is NaN.
AnomalyPoints(values) ==
    {i \in DOMAIN values :
        LET dev == RSub(R(values[i]), NpMean(values))
        IN  /\ RGt(NpVar(values), R(0))
            /\ RGt(RMul(dev, dev),
                   RMul(R(Z_THRESHOLD * Z_THRESHOLD), NpVar(values)))}

detect_trend_anomalies(trends) ==
    IF ~HasKey(trends, "historical_metrics")
    THEN [status |-> "insufficient_data"]
    ELSE LET metrics == trends.historical_metrics
         IN  [m \in {k \in DOMAIN metrics :
                        Len(metrics[k]) >= 3 /\ AnomalyPoints(metrics[k]) # {}}
                 |-> [indices |-> {i - 1 : i \in AnomalyPoints(metrics[m])}]]

\* max((g["gap_percentage"] for g in gaps.values()), default=0)
RECURSIVE MaxGapOver(_, _)
MaxGapOver(gapsDict, labels) ==
    LET g == CHOOSE x \in labels : TRUE
        rest == labels \ {g}
    IN  IF rest = {} THEN gapsDict[g].gap_percentage
        ELSE RMax(gapsDict[g].gap_percentage, MaxGapOver(gapsDict, rest))

LargestGap(gapsDict) ==
    IF DOMAIN gapsDict = {} THEN R(0) ELSE MaxGapOver(gapsDict, DOMAIN gapsDict)

\* A reference to a mutable object that the caller holds
Ref(oid) == [ref |-> oid]

\* The "pay_equity" section (lines 356-368); gapsRef is the object that
\* analysis_results["pay_gap"]["gaps"] refers to, stored as it is.
PayEquitySection(ar, gapsRef) ==
    IF HasKey(ar, "pay_gap")
    THEN [gaps |-> gapsRef,
          statistical_significance |->
              \E g \in DOMAIN ar.pay_gap.gaps :
                  ar.pay_gap.gaps[g].statistical_significance.significant,
          largest_gap |-> LargestGap(ar.pay_gap.gaps)]
    ELSE EmptyDict

\* The "bias_metrics" section (lines 375-387)
BiasSection(ar) ==
    IF HasKey(ar, "bias_metrics")
    THEN LET metrics == ar.bias_metrics
         IN  [attr \in DOMAIN metrics |->
                 [demographic_parity |->
                      metrics[attr].overall.demographic_parity,
                  equalized_odds |-> metrics[attr].overall.equalized_odds,
                  significant_disparities |->
                      {m \in DOMAIN metrics[attr].metric_significance :
                          \E r \in DOMAIN metrics[attr].metric_significance[m] :
                              metrics[attr].metric_significance[m][r].significant}]]
    ELSE EmptyDict

\* The "trend_analysis" section (lines 391-396)
TrendSection(ar) ==
    IF HasKey(ar, "trends")
    THEN [long_term_trends |-> identify_long_term_trends(ar.trends),
          seasonal_patterns |-> detect_seasonal_patterns(ar.trends),
          anomalies |-> detect_trend_anomalies(ar.trends)]
    ELSE EmptyDict

\* One entry of the recommendation list: its category, its priority and
\* the attribute named in its title ("" if none)
Recommendation(category, priority, attr) ==
    [category |-> category, priority |-> priority, attr |-> attr]

\* Lines 571-588: equity.get("largest_gap", 0) > 5
PayEquityRecommendations(analysis) ==
    IF HasKey(analysis, "pay_equity")
          /\ RGt(DictGet(analysis.pay_equity, "largest_gap", R(0)), R(5))
    THEN <<Recommendation("pay_equity", "high", "")>>
    ELSE <<>>

\* Lines 590-607: one entry for each attribute whose list of significant
\* disparities is not empty, in the order of the dictionary
RECURSIVE BiasRecommendationsOver(_, _)
BiasRecommendationsOver(section, attrs) ==
    IF attrs = {} THEN <<>>
    ELSE LET a == CHOOSE x \in attrs : TRUE
         IN  (IF section[a].significant_disparities # {}
              THEN <<Recommendation("bias_mitigation", "high", a)>>
              ELSE <<>>)
             \o BiasRecommendationsOver(section, attrs \ {a})

BiasRecommendations(analysis) ==
    IF HasKey(analysis, "bias_metrics")
    THEN BiasRecommendationsOver(analysis.bias_metrics,
                                 DOMAIN analysis.bias_metrics)
    ELSE <<>>

\* Lines 609-626: trends.get("long_term_trends", {}).get("concerning", False)
\* looks "concerning" up among the keys of long_term_trends, which are the
\* metric names; an entry found there is a non-empty dictionary, hence truthy.
TrendRecommendations(analysis) ==
    IF HasKey(analysis, "trend_analysis")
          /\ HasKey(DictGet(analysis.trend_analysis, "long_term_trends",
                            EmptyDict), "concerning")
    THEN <<Recommendation("trend_mitigation", "medium", "")>>
    ELSE <<>>

generate_smart_recommendations(analysis) ==
    PayEquityRecommendations(analysis)
        \o BiasRecommendations(analysis)
        \o TrendRecommendations(analysis)

\* The report, without its timestamp; gapsRef as in PayEquitySection
generate_fairness_report(ar, gapsRef) ==
    LET detailed_analysis ==
            [pay_equity |-> PayEquitySection(ar, gapsRef),
             bias_metrics |-> BiasSection(ar),
             trend_analysis |-> TrendSection(ar),
             intersectional_findings |-> EmptyDict]
        critical_issues ==
            IF HasKey(ar, "pay_gap")
                  /\ RGt(detailed_analysis.pay_equity.largest_gap, R(5))
            THEN <<"Significant pay gaps detected exceeding 5%">>
            ELSE <<>>
    IN  [summary |->
             [overall_fairness_score |-> calculate_overall_fairness_score(ar),
              critical_issues |-> critical_issues,
              recommendations |->
                  generate_smart_recommendations(detailed_analysis)],
         detailed_analysis |-> detailed_analysis,
         visualizations |-> [pay_distribution |-> None,
                             trend_charts |-> None,
                             fairness_metrics |-> None]]

\* ------------------------------------------------------------------------
\* compute_pay_gap as a state machine
\* ------------------------------------------------------------------------
VARIABLES
    salaries,           \* argument: list of salaries
    groups,             \* argument: list of group labels
    timestamps,         \* argument: None or Some(list of day numbers)
    sklearn_available,  \* module flag _sklearn_available
    order,              \* iteration order of set(groups) in this process
    pc,                 \* "loop", "returned" or "raised"
    idx,                \* position of the first loop in order
    data,               \* local: label -> statistics
    reference_stats,    \* local: None or Some(label)
    gaps,               \* local: label -> gap entry
    error,              \* the exception raised, "" if none
    analysis_results,   \* argument of calculate_overall_fairness_score
    score_pc,           \* "idle", "call" or "returned"
    fairness_score      \* the value calculate_overall_fairness_score returns

\* Calls of compute_statistical_significance by a caller that compares the
\* results for two samples as one of them is shifted
VARIABLES
    sig_group1,         \* argument group1_data
    sig_group2,         \* argument group2_data
    sig_pc,             \* "idle", "call" or "returned"
    sig_result,         \* the dictionary the last call returned
    sig_prev,           \* None, or the arguments and result of the call before
    sig_shifts          \* number of calls made with group2_data shifted

\* A call of generate_fairness_report(analysis_results) and the caller's
\* use of the report
VARIABLES
    report,             \* the dictionary the call returned
    report_pc,          \* "idle", "call" or "returned"
    heap                \* the caller's mutable objects: identity -> content

\* The HTTP middleware registered in main.py
VARIABLES
    mw_pc,              \* "idle", "handling" or "responded"
    mw_outcome,         \* None, or what the route handler does
    mw_response,        \* None, or the response sent to the client
    mw_served           \* number of requests answered

\* Access tokens and the protected endpoint GET /auth/users/me
VARIABLES
    clock,              \* the current time in ticks
    issued,             \* the tokens issued, each with its expiry time
    last_request        \* None, or the last request and its answer

\* The users table behind the /auth routes
VARIABLES
    users               \* the rows by id, and who registered each of them

\* The resumes, jobs and job_matches tables, the connection pool, and the
\* /resume routes
VARIABLES
    resume_db,          \* the tables and the connections checked out
    resume_response     \* None, or the last request and its answer

\* The module services/embedding_service.py and the calls made to it
VARIABLES
    embedding,          \* the globals of the module, and its environment
    embed_calls         \* the vectors returned: first per text, and last

\* The module services/qdrant_utils.py and the calls made to it
VARIABLES
    vector_store,       \* the collections of the client, and its kind
    store_calls         \* the points handed to store_vector; the last call

\* An AlertManager of services/fairness_utils.py and what it sent
VARIABLES
    alert_manager,      \* config, last_alert_time and the clock
    alert_log           \* the alerts dispatched; the outcome of the last batch

payVars == <<salaries, groups, timestamps, sklearn_available, order, pc, idx,
             data, reference_stats, gaps, error>>

scoreVars == <<analysis_results, score_pc, fairness_score>>

sigVars == <<sig_group1, sig_group2, sig_pc, sig_result, sig_prev, sig_shifts>>

reportVars == <<report, report_pc, heap>>

mwVars == <<mw_pc, mw_outcome, mw_response, mw_served>>

authVars == <<clock, issued, last_request>>

usersVars == <<users>>

resumeVars == <<resume_db, resume_response>>

embedVars == <<embedding, embed_calls>>

storeVars == <<vector_store, store_calls>>

alertVars == <<alert_manager, alert_log>>

serviceVars == <<usersVars, resumeVars, embedVars, storeVars, alertVars>>

coreVars == <<payVars, scoreVars, sigVars, reportVars, mwVars>>

vars == <<payVars, scoreVars, sigVars, reportVars, mwVars, authVars,
          serviceVars>>

\* The variables each state machine leaves alone
outsidePayGap == <<scoreVars, sigVars, reportVars, mwVars, authVars,
    serviceVars>>
outsideScore == <<payVars, sigVars, reportVars, mwVars, authVars,
    serviceVars>>
outsideSig == <<payVars, scoreVars, reportVars, mwVars, authVars,
    serviceVars>>
outsideReport == <<payVars, scoreVars, sigVars, mwVars, authVars,
    serviceVars>>
outsideMiddleware == <<payVars, scoreVars, sigVars, reportVars, authVars,
    serviceVars>>
outsideAuth == <<payVars, scoreVars, sigVars, reportVars, mwVars,
    serviceVars>>

\* No call of compute_pay_gap is in progress
PayGapIdle ==
    /\ salaries = <<>>
    /\ groups = <<>>
    /\ timestamps = None
    /\ sklearn_available = TRUE
    /\ order = <<>>
    /\ pc = "idle"
    /\ idx = 1
    /\ data = EmptyDict
    /\ reference_stats = None
    /\ gaps = EmptyDict
    /\ error = ""

\* No call of calculate_overall_fairness_score is in progress
ScoreIdle ==
    /\ analysis_results = EmptyDict
    /\ score_pc = "idle"
    /\ fairness_score = R(0)

\* No call of compute_statistical_significance is in progress
SigIdle ==
    /\ sig_group1 = <<>>
    /\ sig_group2 = <<>>
    /\ sig_pc = "idle"
    /\ sig_result = EmptyDict
    /\ sig_prev = None
    /\ sig_shifts = 0

\* No call of generate_fairness_report is in progress
ReportIdle ==
    /\ report = EmptyDict
    /\ report_pc = "idle"
    /\ heap = EmptyDict

\* No request is being served
MiddlewareIdle ==
    /\ mw_pc = "idle"
    /\ mw_outcome = None
    /\ mw_response = None
    /\ mw_served = 0

\* No token was issued and no request made
AuthIdle ==
    /\ clock = 0
    /\ issued = {}
    /\ last_request = None

\* The users table is empty
UsersIdle == users = [rows |-> <<>>, person |-> <<>>, registrations |-> 0]

\* Nothing happened in the services the other state machines model
\* No request was made to the /resume routes
ResumeIdle ==
    /\ resume_db = [resumes |-> <<>>, jobs |-> <<>>, job_matches |-> <<>>,
                    checked_out |-> 0, calls |-> 0]
    /\ resume_response = None

\* No call of the state machines above is in progress
CoreIdle ==
    /\ PayGapIdle
    /\ ScoreIdle
    /\ SigIdle
    /\ ReportIdle
    /\ MiddlewareIdle

\* The embedding module was imported and not called
EmbedIdle ==
    /\ embedding = [_SENTENCE_AVAILABLE |-> None, _model |-> None,
                    importable |-> FALSE, VECTOR_SIZE |-> 1]
    /\ embed_calls = [first |-> <<>>, last |-> None]

\* The vector storage module was imported and not called
StoreIdle ==
    /\ vector_store = [_QDRANT_AVAILABLE |-> TRUE, collections |-> <<>>]
    /\ store_calls = [handed |-> {}, n |-> 0, last |-> None]

\* No AlertManager sent an alert
AlertsIdle ==
    /\ alert_manager = [config |-> [cooldown_period |-> 1, email |-> FALSE,
                                     slack_webhook |-> FALSE],
                        last_alert_time |-> <<>>, now |-> 0]
    /\ alert_log = [dispatched |-> <<>>, last |-> <<>>]

ServicesIdle ==
    /\ UsersIdle
    /\ ResumeIdle
    /\ EmbedIdle
    /\ StoreIdle
    /\ AlertsIdle

SeqsUpTo(S, n) == UNION {[1..k -> S] : k \in 0..n}

Ramp(k) == [i \in 1..k |-> i]

\* The scenario of the specification: two groups of two observations
ScenarioSalaries == <<50000, 50000, 60000, 60000>>
ScenarioGroups == <<"A", "A", "B", "B">>

\* The timestamps tried with n group labels: missing, empty, and one
\* observation a day with one entry too few, as many, or one too many.
TimestampChoices(n) ==
    {None, Some(<<>>)} \cup
    {Some(Ramp(k)) : k \in {j \in {n - 1, n, n + 1} : j >= 1 /\ j <= MaxLen}}

\* set(groups) and the orders in which it can be iterated
LabelSet(grps) == Range(grps)

Perms(S) ==
    {f \in [1..Cardinality(S) -> S] : \A i, j \in DOMAIN f : f[i] = f[j] => i = j}

\* The salaries and groups tried: the two lists differ in length by at most
\* one; and the scenario.
PayGapInputs ==
    {inp \in SeqsUpTo(0..MaxSalary, MaxLen) \X SeqsUpTo(GroupLabels, MaxLen) :
        Len(inp[1]) - Len(inp[2]) \in {-1, 0, 1}}
        \cup {<<ScenarioSalaries, ScenarioGroups>>}

InitPayGap ==
    /\ ServicesIdle
    /\ \E inp \in PayGapInputs :
          /\ salaries = inp[1]
          /\ groups = inp[2]
    /\ timestamps \in TimestampChoices(Len(groups))
    \* the flag is read by compute_temporal_trend only
    /\ sklearn_available \in (IF Truthy(timestamps) THEN BOOLEAN ELSE {TRUE})
    /\ order \in Perms(LabelSet(groups))
    /\ pc = "loop"
    /\ idx = 1
    /\ data = EmptyDict
    /\ reference_stats = None
    /\ gaps = EmptyDict
    /\ error = ""
    /\ ScoreIdle
    /\ SigIdle
    /\ ReportIdle
    /\ MiddlewareIdle
    /\ AuthIdle

\* Variant of UpdateReference that also replaces the reference on a tie
UpdateReferenceOnTie(ref, g, stats_data, stats) ==
    IF ref = None \/ stats_data.count >= stats[ref[1]].count
    THEN Some(g)
    ELSE ref

\* "Use largest group as reference" (lines 179-181): the label replaces the
\* reference only when its count is strictly larger.
UpdateReference(ref, g, stats_data, stats) ==
    IF ref = None \/ stats_data.count > stats[ref[1]].count
    THEN Some(g)
    ELSE ref

\* One iteration of `for g in group_labels` (lines 172-181)
GroupStatsStep ==
    /\ pc = "loop"
    /\ idx <= Len(order)
    /\ LET g == order[idx]
           g_indices == IndicesOf(groups, g)
           err == GroupStatsError(salaries, g_indices, timestamps,
                                  sklearn_available)
       IN  IF err # ""
           THEN /\ pc' = "raised"
                /\ error' = err
                /\ UNCHANGED <<idx, data, reference_stats>>
           ELSE LET stats_data == _compute_group_statistics(
                                      salaries, g_indices, timestamps)
                IN  /\ data' = (g :> stats_data) @@ data
                    /\ reference_stats' =
                          UpdateReference(reference_stats, g, stats_data, data)
                    /\ idx' = idx + 1
                    /\ UNCHANGED <<pc, error>>
    /\ UNCHANGED <<salaries, groups, timestamps, sklearn_available, order, gaps>>
    /\ UNCHANGED outsidePayGap

\* `if reference_stats and len(data) >= 2`: None and "" are both falsy
GapsWanted ==
    /\ reference_stats # None
    /\ reference_stats[1] # ""
    /\ Cardinality(DOMAIN data) >= 2

\* Lines 183-192: the gaps and the return
GapsAndReturn ==
    /\ pc = "loop"
    /\ idx > Len(order)
    /\ IF GapsWanted
       THEN LET ref == reference_stats[1]
                err == GroupGapsError(data, ref, LabelSet(groups))
            IN  IF err # ""
                THEN /\ pc' = "raised"
                     /\ error' = err
                     /\ UNCHANGED gaps
                ELSE /\ gaps' = _compute_group_gaps(data, salaries, groups,
                                                    ref, LabelSet(groups))
                     /\ pc' = "returned"
                     /\ UNCHANGED error
       ELSE /\ pc' = "returned"
            /\ UNCHANGED <<gaps, error>>
    /\ UNCHANGED <<salaries, groups, timestamps, sklearn_available, order, idx,
                   data, reference_stats>>
    /\ UNCHANGED outsidePayGap

NextPayGap == GroupStatsStep \/ GapsAndReturn

Spec == InitPayGap /\ [][NextPayGap]_vars

\* The value compute_pay_gap returns
Returned == pc = "returned"
Raised == pc = "raised"
result == [group_stats |-> data, gaps |-> gaps,
           reference_group |-> reference_stats]

\* ------------------------------------------------------------------------
\* Properties of compute_pay_gap
\* ------------------------------------------------------------------------

\* The observations a call pairs up: position i of groups with position i
\* of salaries.
Occurrences(g) == Cardinality({i \in DOMAIN groups : groups[i] = g})

PositionIn(ord, g) == CHOOSE i \in DOMAIN ord : ord[i] = g

CountAtMost(g, v) ==
    Cardinality({i \in DOMAIN groups : groups[i] = g /\ salaries[i] <= v})

\* The k-th smallest salary of group g, by counting
KthSmallest(g, k) ==
    MinOf({salaries[i] : i \in {j \in DOMAIN groups :
                                  groups[j] = g /\ CountAtMost(g, salaries[j]) >= k}})

MedianOfGroup(g) ==
    LET n == Occurrences(g)
    IN  RNorm(KthSmallest(g, (n + 1) \div 2) + KthSmallest(g, (n + 2) \div 2), 2)

\* C1: whenever compute_pay_gap returns for an input with at least one
\* observation, reference_group is a label of the input whose count is the
\* maximum count over all groups, and among the labels with that count it is
\* the first in the iteration order of the label set.
C1_ReferenceIsFirstLargest ==
    (Returned /\ Len(groups) >= 1) =>
        /\ reference_stats # None
        /\ LET r == reference_stats[1]
           IN  /\ r \in LabelSet(groups)
               /\ data[r].count = Occurrences(r)
               /\ \A g \in LabelSet(groups) : Occurrences(g) <= Occurrences(r)
               /\ \A g \in LabelSet(groups) :
                      Occurrences(g) = Occurrences(r)
                          => PositionIn(order, r) <= PositionIn(order, g)

\* C1 witness: a call returned in which two groups tie on the maximum count
\* and the reference is not the last label iterated.
C1_Witness ==
    /\ Returned
    /\ reference_stats # None
    /\ \E g \in LabelSet(groups) :
          /\ g # reference_stats[1]
          /\ Occurrences(g) = Occurrences(reference_stats[1])
          /\ PositionIn(order, reference_stats[1]) < PositionIn(order, g)

\* C2: for every group g with a gap entry, gap_percentage is
\* (median(reference) - median(g)) / median(reference) * 100 over the
\* medians of the supplied salaries of the two groups.
C2_GapIsRelativeMedianDifference ==
    Returned =>
        \A g \in DOMAIN gaps :
            LET mr == MedianOfGroup(reference_stats[1])
                mg == MedianOfGroup(g)
            IN  /\ mr # R(0)
                /\ IsFinite(gaps[g].gap_percentage)
                /\ RMul(gaps[g].gap_percentage, mr) = RMul(RSub(mr, mg), R(100))

\* C2 witness: a call returned a non-zero gap against a reference whose
\* median lies between two salaries.
C2_Witness ==
    /\ Returned
    /\ \E g \in DOMAIN gaps :
          /\ gaps[g].gap_percentage # R(0)
          /\ data[reference_stats[1]].median_salary[2] = 2

\* The call has ended, by returning or by raising
Finished == Returned \/ Raised

\* The three arrays are aligned: one salary per label, timestamps absent or
\* one per label
AlignedInput ==
    /\ Len(salaries) = Len(groups)
    /\ timestamps # None => Len(timestamps[1]) = Len(groups)

\* The observations of the two groups are the same multiset of salaries
SameMultiset(g, h) ==
    \A v \in Range(salaries) :
        Cardinality({i \in DOMAIN groups : groups[i] = g /\ salaries[i] = v})
      = Cardinality({i \in DOMAIN groups : groups[i] = h /\ salaries[i] = v})

\* The label with the largest count that comes first in the iteration order
LargestFirst ==
    CHOOSE r \in LabelSet(groups) :
        \A g \in LabelSet(groups) :
            \/ Occurrences(g) < Occurrences(r)
            \/ /\ Occurrences(g) = Occurrences(r)
               /\ PositionIn(order, r) <= PositionIn(order, g)

\* C3: the gaps mapping has exactly one entry for each distinct group other
\* than the reference, each naming the reference; it is empty with fewer
\* than two distinct groups, and with one group the reference is that group.
C3_GapsCoverNonReferenceGroups ==
    (Returned /\ Len(groups) >= 1) =>
        /\ reference_stats # None
        /\ DOMAIN gaps =
              IF Cardinality(LabelSet(groups)) >= 2
              THEN LabelSet(groups) \ {reference_stats[1]}
              ELSE {}
        /\ \A g \in DOMAIN gaps : gaps[g].reference_group = reference_stats[1]
        /\ Cardinality(LabelSet(groups)) = 1
              => reference_stats[1] \in LabelSet(groups)

\* C4: for aligned input in which a group has the same salaries as the
\* (truthy) reference group, the call returns a gap of 0 for that group
\* with significant = false.
C4_IdenticalGroupsHaveNoGap ==
    (Finished /\ AlignedInput /\ idx > Len(order) /\ Len(groups) >= 1
              /\ (Truthy(timestamps) => sklearn_available)) =>
        \A g \in LabelSet(groups) \ {LargestFirst} :
            (LargestFirst # "" /\ SameMultiset(g, LargestFirst)) =>
                /\ Returned
                /\ g \in DOMAIN gaps
                /\ gaps[g].gap_percentage = R(0)
                /\ ~gaps[g].statistical_significance.significant

\* C5 as stated: in the scenario both groups have count 2 and medians 50000
\* and 60000, and the gap of the non-reference group is 20% or -20%.
C5_ScenarioGapIsTwentyPercent ==
    (Returned /\ salaries = ScenarioSalaries /\ groups = ScenarioGroups) =>
        /\ data["A"].count = 2 /\ data["B"].count = 2
        /\ data["A"].median_salary = R(50000)
        /\ data["B"].median_salary = R(60000)
        /\ \A g \in DOMAIN gaps : gaps[g].gap_percentage \in {R(20), R(-20)}

\* C5 amended: in the scenario both groups have count 2 and medians 50000
\* and 60000; the reference is the label iterated first; with A as the
\* reference the gap of B is -20%, with B as the reference the gap of A is
\* 50/3 % (16.67%).
C5_ScenarioGapDependsOnReference ==
    (Returned /\ salaries = ScenarioSalaries /\ groups = ScenarioGroups) =>
        /\ data["A"].count = 2 /\ data["B"].count = 2
        /\ data["A"].median_salary = R(50000)
        /\ data["B"].median_salary = R(60000)
        /\ reference_stats = Some(order[1])
        /\ reference_stats = Some("A")
              => DOMAIN gaps = {"B"} /\ gaps["B"].gap_percentage = R(-20)
        /\ reference_stats = Some("B")
              => DOMAIN gaps = {"A"} /\ gaps["A"].gap_percentage = RNorm(50, 3)

\* C5 witness: the scenario returned with B as the reference group
C5_Witness ==
    /\ Returned
    /\ salaries = ScenarioSalaries /\ groups = ScenarioGroups
    /\ reference_stats = Some("B")
    /\ "A" \in DOMAIN gaps

\* C6: when the reference group and another group consist of one and the
\* same salary value, the significance record of that group has
\* cohens_d = 0, effect_size negligible and significant = false.
C6_ConstantGroupsHaveZeroCohensD ==
    Returned =>
        \A g \in DOMAIN gaps :
            (/\ Occurrences(g) + Occurrences(reference_stats[1]) >= 3
             /\ \A i, j \in DOMAIN groups :
                    (groups[i] \in {g, reference_stats[1]}
                     /\ groups[j] \in {g, reference_stats[1]})
                        => salaries[i] = salaries[j])
            => /\ gaps[g].statistical_significance.cohens_d = R(0)
               /\ gaps[g].statistical_significance.effect_size = "negligible"
               /\ ~gaps[g].statistical_significance.significant

\* C7: for aligned input with at least two groups whose (truthy) reference
\* group has median 0, the call returns and every other group has a gap
\* entry.
C7_ZeroReferenceMedianIsGuarded ==
    (Finished /\ AlignedInput /\ idx > Len(order)
              /\ Cardinality(LabelSet(groups)) >= 2
              /\ (Truthy(timestamps) => sklearn_available)
              /\ LargestFirst # ""
              /\ MedianOfGroup(LargestFirst) = R(0)) =>
        /\ Returned
        /\ \A g \in LabelSet(groups) \ {LargestFirst} : g \in DOMAIN gaps

\* The arrays that are supplied differ in length
Misaligned ==
    \/ Len(salaries) # Len(groups)
    \/ Truthy(timestamps) /\ Len(timestamps[1]) # Len(groups)

\* C8: a call whose salaries, groups and timestamps are not all of the same
\* length ends by raising, never by returning statistics.
C8_MismatchedLengthsAreRejected ==
    (Finished /\ Misaligned /\ Len(groups) >= 1) => Raised

\* ------------------------------------------------------------------------
\* calculate_overall_fairness_score as a state machine
\* ------------------------------------------------------------------------

\* Bounds of the inputs
MaxGapSteps == 3     \* gap percentages are -10*MaxGapSteps .. 10*MaxGapSteps
MetricDen == 1       \* bias metrics are k/MetricDen in -1 .. 1

ScoreGroupLabels == {"A", "B"}
ScoreAttributes == {"gender", "ethnicity"}

GapValues == {R(10 * k) : k \in -MaxGapSteps..MaxGapSteps}

\* Demographic-parity and equalized-odds differences lie in [-1, 1]
MetricValues == {RNorm(k, MetricDen) : k \in -MetricDen..MetricDen}

\* The gaps mappings a pay_gap result can carry
GapDicts ==
    UNION {[S -> {[gap_percentage |-> v] : v \in GapValues}] :
               S \in SUBSET ScoreGroupLabels}

BiasDicts ==
    UNION {[S -> {[overall |-> [demographic_parity |-> dp,
                                equalized_odds |-> eo]] :
                      dp \in MetricValues, eo \in MetricValues}] :
               S \in SUBSET ScoreAttributes}

TrendDicts ==
    {EmptyDict} \cup {[increasing_disparity |-> b] : b \in BOOLEAN}

\* analysis_results: each of the three keys present or absent
AnalysisResults ==
    {p @@ b @@ t :
        p \in {EmptyDict} \cup {[pay_gap |-> [gaps |-> g]] : g \in GapDicts},
        b \in {EmptyDict} \cup {[bias_metrics |-> m] : m \in BiasDicts},
        t \in {EmptyDict} \cup {[trends |-> d] : d \in TrendDicts}}

InitScore ==
    /\ ServicesIdle
    /\ PayGapIdle
    /\ SigIdle
    /\ ReportIdle
    /\ MiddlewareIdle
    /\ AuthIdle
    /\ analysis_results \in AnalysisResults
    /\ score_pc = "call"
    /\ fairness_score = R(0)

CalculateScore ==
    /\ score_pc = "call"
    /\ fairness_score' = calculate_overall_fairness_score(analysis_results)
    /\ score_pc' = "returned"
    /\ UNCHANGED analysis_results
    /\ UNCHANGED outsideScore

NextScore == CalculateScore

SpecScore == InitScore /\ [][NextScore]_vars

ScoreReturned == score_pc = "returned"

\* The components of analysis_results that contribute a sub-score
PayGapContributes == HasKey(analysis_results, "pay_gap")

BiasContributes ==
    /\ HasKey(analysis_results, "bias_metrics")
    /\ analysis_results.bias_metrics # EmptyDict

TrendContributes ==
    /\ HasKey(analysis_results, "trends")
    /\ HasKey(analysis_results.trends, "increasing_disparity")

SubScorePayGap ==
    IF PayGapContributes THEN GapScore(analysis_results.pay_gap.gaps) ELSE R(0)
SubScoreBias ==
    IF BiasContributes THEN BiasScore(analysis_results.bias_metrics) ELSE R(0)
SubScoreTrend ==
    IF TrendContributes THEN TrendScore(analysis_results.trends) ELSE R(0)

\* Indicator of a condition
Ind(b) == IF b THEN 1 ELSE 0

\* C10: the score times the sum of the weights of the contributing
\* components (0.4 pay gap, 0.3 bias metrics, 0.3 trend) is the sum of
\* weight * sub-score over them; with exactly one contributing component the
\* score is that component's sub-score.
C10_ScoreIsRenormalisedWeightedMean ==
    ScoreReturned =>
        LET wp == 4 * Ind(PayGapContributes)
            wb == 3 * Ind(BiasContributes)
            wt == 3 * Ind(TrendContributes)
        IN  /\ RMul(fairness_score, R(wp + wb + wt))
                 = RAdd(RAdd(RMul(R(wp), SubScorePayGap),
                             RMul(R(wb), SubScoreBias)),
                        RMul(R(wt), SubScoreTrend))
            /\ (PayGapContributes /\ ~BiasContributes /\ ~TrendContributes)
                  => fairness_score = SubScorePayGap
            /\ (~PayGapContributes /\ BiasContributes /\ ~TrendContributes)
                  => fairness_score = SubScoreBias
            /\ (~PayGapContributes /\ ~BiasContributes /\ TrendContributes)
                  => fairness_score = SubScoreTrend

\* C10 witness: all three components contribute, with different sub-scores
C10_Witness ==
    /\ ScoreReturned
    /\ PayGapContributes /\ BiasContributes /\ TrendContributes
    /\ SubScorePayGap # SubScoreBias
    /\ SubScoreBias # SubScoreTrend
    /\ SubScorePayGap # SubScoreTrend

\* The input holds nothing but a trends component
OnlyTrends ==
    /\ HasKey(analysis_results, "trends")
    /\ ~HasKey(analysis_results, "pay_gap")
    /\ ~HasKey(analysis_results, "bias_metrics")

\* The input holds nothing but a pay_gap component
OnlyPayGap ==
    /\ HasKey(analysis_results, "pay_gap")
    /\ ~HasKey(analysis_results, "bias_metrics")
    /\ ~HasKey(analysis_results, "trends")

\* An increasing disparity is flagged in the trends component
DisparityFlagged ==
    /\ HasKey(analysis_results.trends, "increasing_disparity")
    /\ analysis_results.trends.increasing_disparity

\* max(0, 1 - |gap| / 20) of one gap percentage
GapSubScoreOf(gap) ==
    LET s == RSub(R(1), RDiv(RAbs(gap), R(20)))
    IN  IF RLt(s, R(0)) THEN R(0) ELSE s

\* C11 as stated: whenever a trends component is present the trend
\* sub-score is 1 if no increasing disparity is flagged and 0.5 if one is,
\* so an input holding only trends, with no flag, scores 1.
C11_TrendsAloneScoreOne ==
    (ScoreReturned /\ OnlyTrends) =>
        fairness_score = (IF DisparityFlagged THEN RNorm(1, 2) ELSE R(1))

\* C11 amended: an input holding only pay_gap scores
\* max(0, 1 - largest |gap| / 20), and 1 when gaps is empty; an input
\* holding only trends scores 1 or 0.5 by the increasing_disparity entry
\* when trends has that entry, and 0 when trends has no such entry.
C11_SubScoresOfSingleComponents ==
    ScoreReturned =>
        /\ OnlyPayGap =>
              LET g == analysis_results.pay_gap.gaps
              IN  IF DOMAIN g = {} THEN fairness_score = R(1)
                  ELSE /\ \E k \in DOMAIN g :
                            fairness_score = GapSubScoreOf(g[k].gap_percentage)
                       /\ \A k \in DOMAIN g :
                            RLe(fairness_score,
                                GapSubScoreOf(g[k].gap_percentage))
        /\ (OnlyTrends /\ TrendContributes) =>
              fairness_score = (IF DisparityFlagged THEN RNorm(1, 2) ELSE R(1))
        /\ (OnlyTrends /\ ~TrendContributes) => fairness_score = R(0)

\* C11 witness: only trends, the disparity flagged, and the score is 0.5
C11_Witness ==
    /\ ScoreReturned
    /\ OnlyTrends
    /\ DisparityFlagged
    /\ fairness_score = RNorm(1, 2)

\* ------------------------------------------------------------------------
\* compute_statistical_significance as a state machine
\* ------------------------------------------------------------------------

\* Bounds of the samples
MaxSample == 2       \* each sample has 1 .. MaxSample observations
MaxObs == 3          \* observations are 0 .. MaxObs
MaxShifts == 2       \* calls made with the second sample shifted by one

\* The samples tried, each listed in ascending order
Samples ==
    {xs \in SeqsUpTo(0..MaxObs, MaxSample) :
        /\ xs # <<>>
        /\ \A i \in 1..(Len(xs) - 1) : xs[i] <= xs[i + 1]}

InitSig ==
    /\ ServicesIdle
    /\ PayGapIdle
    /\ ScoreIdle
    /\ ReportIdle
    /\ MiddlewareIdle
    /\ AuthIdle
    /\ sig_group1 \in Samples
    /\ sig_group2 \in Samples
    /\ sig_pc = "call"
    /\ sig_result = EmptyDict
    /\ sig_prev = None
    /\ sig_shifts = 0

\* The first call
Evaluate ==
    /\ sig_pc = "call"
    /\ sig_result' = compute_statistical_significance(sig_group1, sig_group2)
    /\ sig_pc' = "returned"
    /\ UNCHANGED <<sig_group1, sig_group2, sig_prev, sig_shifts>>
    /\ UNCHANGED outsideSig

\* A further call, with every observation of group2_data moved by one
EvaluateShifted ==
    /\ sig_pc = "returned"
    /\ sig_shifts < MaxShifts
    /\ \E k \in {-1, 1} :
          LET shifted == [i \in DOMAIN sig_group2 |-> sig_group2[i] + k]
          IN  /\ sig_group2' = shifted
              /\ sig_result' =
                    compute_statistical_significance(sig_group1, shifted)
    /\ sig_prev' = Some([group2 |-> sig_group2, result |-> sig_result])
    /\ sig_shifts' = sig_shifts + 1
    /\ UNCHANGED <<sig_group1, sig_pc>>
    /\ UNCHANGED outsideSig

NextSig == Evaluate \/ EvaluateShifted

SpecSig == InitSig /\ [][NextSig]_vars

SigReturned == sig_pc = "returned"

\* |q| < num / den, |q| >= num / den for a finite or infinite q (not NaN)
AbsBelow(q, num, den) == IsFinite(q) /\ Abs(q[1]) * den < num * q[2]
AbsAtLeast(q, num, den) == ~IsNaN(q) /\ ~AbsBelow(q, num, den)

\* The label that the partition of |d| gives; the model holds d * |d|, so
\* the bounds 0.2, 0.5 and 0.8 appear as their squares 4, 25 and 64 over 100.
PartitionLabel(dSq) ==
    IF AbsAtLeast(dSq, 64, 100) THEN "large"
    ELSE IF AbsAtLeast(dSq, 25, 100) /\ AbsBelow(dSq, 64, 100) THEN "medium"
    ELSE IF AbsAtLeast(dSq, 4, 100) /\ AbsBelow(dSq, 25, 100) THEN "small"
    ELSE "negligible"

\* The two-sided 5% critical values of Student's t for 1 .. 4 degrees of
\* freedom, in thousandths
T975 == <<12706, 4303, 3182, 2776>>

\* |t| exceeds the critical value: with t * |t| = n / d, the whole and the
\* fractional part of |n| / d are compared with those of T975[df]^2 / 10^6
RejectsAtFivePercent(tSq, df) ==
    IF IsNaN(tSq) THEN FALSE
    ELSE IF ~IsFinite(tSq) THEN TRUE
    ELSE LET whole == Abs(tSq[1]) \div tSq[2]
             rest == Abs(tSq[1]) % tSq[2]
             crit == T975[df] * T975[df]
         IN  \/ whole > crit \div 1000000
             \/ /\ whole = crit \div 1000000
                /\ rest * 1000000 > (crit % 1000000) * tSq[2]

\* C12: effect_size is the label of the partition of |cohens_d| (negligible
\* below 0.2, small in [0.2, 0.5), medium in [0.5, 0.8), large from 0.8), and
\* significant is true exactly when the two-sided t test of the two samples
\* has a p-value below 0.05.
C12_EffectSizePartitionsCohensD ==
    SigReturned =>
        /\ sig_result.effect_size = PartitionLabel(sig_result.cohens_d)
        /\ sig_result.significant =
              RejectsAtFivePercent(sig_result.t_statistic,
                                   Len(sig_group1) + Len(sig_group2) - 2)

\* C12 witness: a medium effect that is not significant
C12_Witness ==
    /\ SigReturned
    /\ sig_result.effect_size = "medium"
    /\ AbsAtLeast(sig_result.cohens_d, 25, 100)
    /\ AbsBelow(sig_result.cohens_d, 64, 100)
    /\ ~sig_result.significant

\* Position of a label in negligible < small < medium < large
LabelRank(label) ==
    CASE label = "negligible" -> 0
      [] label = "small" -> 1
      [] label = "medium" -> 2
      [] label = "large" -> 3

\* |mean(group1) - mean(group2)|
AbsMeanDiff(a, b) == RAbs(RSub(NpMean(a), NpMean(b)))

\* The call before was made with the second sample nearer to the first
SeparationGrew ==
    /\ SigReturned
    /\ sig_prev # None
    /\ RLt(AbsMeanDiff(sig_group1, sig_prev[1].group2),
           AbsMeanDiff(sig_group1, sig_group2))

\* C13: when the second sample is shifted so that the absolute difference
\* of the means grows, |cohens_d| is not smaller than before and the
\* effect_size label is not lower than before.
C13_SeparationNeverLowersEffect ==
    SeparationGrew =>
        /\ ~RLt(RAbs(sig_result.cohens_d), RAbs(sig_prev[1].result.cohens_d))
        /\ LabelRank(sig_result.effect_size)
              >= LabelRank(sig_prev[1].result.effect_size)

\* C13 witness: the separation grew and the label rose from small
C13_Witness ==
    /\ SeparationGrew
    /\ sig_prev[1].result.effect_size = "small"
    /\ LabelRank(sig_result.effect_size) > 1
    /\ RLt(RAbs(sig_prev[1].result.cohens_d), RAbs(sig_result.cohens_d))

\* ------------------------------------------------------------------------
\* generate_fairness_report as a state machine
\* ------------------------------------------------------------------------

\* The analysis results tried
ReportGapValues == {R(-30), R(5), R(6)}

ReportGapDicts ==
    UNION {[S -> {[gap_percentage |-> v,
                   statistical_significance |-> [significant |-> b]] :
                      v \in ReportGapValues, b \in BOOLEAN}] :
               S \in SUBSET ScoreGroupLabels}

\* bias metrics of one attribute, one metric of which is or is not
\* significantly different for one group
ReportBiasDicts ==
    {EmptyDict} \cup
    {[gender |-> [overall |-> [demographic_parity |-> R(0),
                               equalized_odds |-> R(0)],
                  metric_significance |->
                      [selection_rate |-> [F |-> [significant |-> b]]]]] :
        b \in BOOLEAN}

\* Histories of a metric: too short, rising on a line, falling, constant,
\* and rising with an R^2 of 0.64
MetricHistories ==
    {<<1, 2, 3>>, <<1, 2, 3, 4>>, <<4, 3, 2, 1>>, <<1, 1, 1, 1>>,
     <<1, 3, 2, 4>>}

MetricNames == {"pay_gap", "concerning"}

\* trends with nothing in it, with the flag the score reads, or with the
\* histories the trend helpers read
ReportTrendDicts ==
    {EmptyDict, [increasing_disparity |-> TRUE]} \cup
    {[historical_metrics |-> m] :
        m \in UNION {[S -> MetricHistories] : S \in SUBSET MetricNames}}

ReportInputs ==
    {p @@ b @@ t :
        p \in {EmptyDict} \cup {[pay_gap |-> [gaps |-> g]] : g \in ReportGapDicts},
        b \in {EmptyDict} \cup {[bias_metrics |-> m] : m \in ReportBiasDicts},
        t \in {EmptyDict} \cup {[trends |-> d] : d \in ReportTrendDicts}}

\* The object that analysis_results["pay_gap"]["gaps"] refers to
GapsObject == "gaps"

InitReport ==
    /\ ServicesIdle
    /\ PayGapIdle
    /\ SigIdle
    /\ MiddlewareIdle
    /\ AuthIdle
    /\ analysis_results \in ReportInputs
    /\ score_pc = "idle"
    /\ fairness_score = R(0)
    /\ heap = IF HasKey(analysis_results, "pay_gap")
              THEN GapsObject :> analysis_results.pay_gap.gaps
              ELSE EmptyDict
    /\ report = EmptyDict
    /\ report_pc = "call"

\* The call generate_fairness_report(analysis_results)
GenerateReport ==
    /\ report_pc = "call"
    /\ report' = generate_fairness_report(analysis_results, Ref(GapsObject))
    /\ report_pc' = "returned"
    /\ UNCHANGED heap
    /\ UNCHANGED outsideReport

\* The caller removes an entry from the gaps section of the report:
\* del report["detailed_analysis"]["pay_equity"]["gaps"][g]
MutateReportGaps ==
    /\ report_pc = "returned"
    /\ HasKey(report.detailed_analysis.pay_equity, "gaps")
    /\ LET oid == report.detailed_analysis.pay_equity.gaps.ref
       IN  \E g \in DOMAIN heap[oid] :
              heap' = [heap EXCEPT
                          ![oid] = [k \in DOMAIN heap[oid] \ {g} |-> heap[oid][k]]]
    /\ UNCHANGED <<report, report_pc>>
    /\ UNCHANGED outsideReport

NextReport == GenerateReport \/ MutateReportGaps

SpecReport == InitReport /\ [][NextReport]_vars

ReportReturned == report_pc = "returned"

\* What the caller now finds in the structure it passed as analysis_results
CallerAnalysisResults ==
    IF HasKey(analysis_results, "pay_gap")
    THEN [analysis_results EXCEPT !.pay_gap.gaps = heap[GapsObject]]
    ELSE analysis_results

\* The report holds a recommendation of the category
Recommends(category) ==
    \E i \in DOMAIN report.summary.recommendations :
        report.summary.recommendations[i].category = category

\* The gaps of the pay_gap component as passed, none if it is absent
PassedGaps ==
    IF HasKey(analysis_results, "pay_gap")
    THEN analysis_results.pay_gap.gaps ELSE EmptyDict

\* Some group's gap exceeds 5% in absolute value, which is what the
\* fairness score measures
LargestAbsGapAboveFive ==
    \E g \in DOMAIN PassedGaps : RGt(RAbs(PassedGaps[g].gap_percentage), R(5))

\* C14: the report carries a pay_equity recommendation of priority high,
\* and the critical issue, exactly when the largest gap in absolute value
\* exceeds 5%.
C14_PayEquityFlaggedIffLargestAbsGapAboveFive ==
    ReportReturned =>
        /\ Recommends("pay_equity") <=> LargestAbsGapAboveFive
        /\ (report.summary.critical_issues # <<>>) <=> LargestAbsGapAboveFive
        /\ \A i \in DOMAIN report.summary.recommendations :
              report.summary.recommendations[i].category = "pay_equity"
                  => report.summary.recommendations[i].priority = "high"

\* A metric with at least four periods, a positive slope and R^2 > 0.7:
\* slope > 0 when n * Sxy > 0, R^2 > 0.7 when 10 * Sxy^2 > 7 * Sxx * Syy
ConcerningMetric(values) ==
    LET x == [i \in 1..Len(values) |-> i - 1]
    IN  /\ Len(values) >= 4
        /\ SPn(x, values) > 0
        /\ 10 * SPn(x, values) * SPn(x, values) > 7 * SSn(x) * SSn(values)

HasConcerningMetric ==
    /\ HasKey(analysis_results, "trends")
    /\ HasKey(analysis_results.trends, "historical_metrics")
    /\ \E m \in DOMAIN analysis_results.trends.historical_metrics :
          ConcerningMetric(analysis_results.trends.historical_metrics[m])

\* C15: the report carries a trend_mitigation recommendation exactly when
\* the trends hold a concerning metric.
C15_TrendMitigationIffConcerningMetric ==
    ReportReturned => (Recommends("trend_mitigation") <=> HasConcerningMetric)

\* C17: whatever is done to the returned report, the caller's
\* analysis_results stays as it was passed.
C17_ReportSharesNothingWithInput ==
    ReportReturned => CallerAnalysisResults = analysis_results

\* ------------------------------------------------------------------------
\* compute_pay_gap: optional dependencies and trends
\* ------------------------------------------------------------------------

\* C16: a call made while scikit-learn is absent does not end by raising
\* ImportError.
C16_MissingDependencyIsAbsorbed ==
    (Finished /\ ~sklearn_available) => error # "ImportError"

\* Sums over the ordered pairs of a group's own observations:
\* sum (t_i - t_j) * (s_i - s_j) and sum (t_i - t_j)^2, which are 2n times
\* the sums of products and of squares of the deviations from the means
RECURSIVE OwnCrossSum(_)
OwnCrossSum(pairs) ==
    IF pairs = {} THEN 0
    ELSE LET p == CHOOSE x \in pairs : TRUE
         IN  (timestamps[1][p[1]] - timestamps[1][p[2]])
                 * (salaries[p[1]] - salaries[p[2]])
             + OwnCrossSum(pairs \ {p})

RECURSIVE OwnTimeSum(_)
OwnTimeSum(pairs) ==
    IF pairs = {} THEN 0
    ELSE LET p == CHOOSE x \in pairs : TRUE
         IN  (timestamps[1][p[1]] - timestamps[1][p[2]])
                 * (timestamps[1][p[1]] - timestamps[1][p[2]])
             + OwnTimeSum(pairs \ {p})

\* The positions of the observations of group g
Own(g) == {i \in DOMAIN groups : groups[i] = g}

\* The trend of group g is the least-squares line through its own
\* (timestamp, salary) pairs
TrendIsOwn(g) ==
    LET pairs == Own(g) \X Own(g)
        trend == data[g].trend
    IN  /\ IF OwnTimeSum(pairs) = 0 THEN trend.slope = R(0)
           ELSE trend.slope[1] * OwnTimeSum(pairs)
                    = trend.slope[2] * OwnCrossSum(pairs)
        /\ trend.trend_direction = "increasing" <=> OwnCrossSum(pairs) > 0

MaxRequests == 3     \* requests served in one run

\* The exception classes a route handler raises; "Exception" is any class
\* without a clause of its own
ExceptionClasses ==
    {"AuthError", "PermissionError", "NotFoundError", "ValidationError",
     "RequestValidationError", "TokenExpiredError", "TokenInvalidError",
     "SQLAlchemyError", "Exception"}

Messages ==
    {"Invalid credentials", "Insufficient permissions", "Resource not found"}

\* What call_next(request) does: it returns the handler's response or
\* raises the handler's exception
NormalResponse == [status_code |-> 200, content |-> [message |-> "ok"]]

HandlerOutcomes ==
    {[raised |-> FALSE, response |-> NormalResponse]} \cup
    {[raised |-> TRUE, class |-> c, message |-> m] :
        c \in ExceptionClasses, m \in Messages}

JSONResponse(status_code, content) ==
    [status_code |-> status_code, content |-> content]

\* error_handler of middleware/error_handling.py: one clause for each class
middleware_error_handler(outcome) ==
    IF ~outcome.raised THEN outcome.response
    ELSE CASE outcome.class = "AuthError" ->
                  JSONResponse(401, [detail |-> outcome.message])
           [] outcome.class = "PermissionError" ->
                  JSONResponse(403, [detail |-> outcome.message])
           [] outcome.class = "NotFoundError" ->
                  JSONResponse(404, [detail |-> outcome.message])
           [] outcome.class = "ValidationError" ->
                  JSONResponse(400, [detail |-> outcome.message])
           [] outcome.class = "RequestValidationError" ->
                  JSONResponse(422, [detail |-> outcome.message])
           [] outcome.class = "TokenExpiredError" ->
                  JSONResponse(401, [detail |-> "Token has expired"])
           [] outcome.class = "TokenInvalidError" ->
                  JSONResponse(401, [detail |-> "Invalid token"])
           [] outcome.class = "SQLAlchemyError" ->
                  JSONResponse(500, [detail |-> "Database error occurred"])
           [] OTHER ->
                  JSONResponse(500, [detail |-> "An unexpected error occurred"])

\* error_handler of app/middleware/error_handling.py: one clause for all
error_handler(outcome) ==
    IF ~outcome.raised THEN outcome.response
    ELSE JSONResponse(500, [error |-> "Internal Server Error",
                            detail |-> outcome.message])

\* main.py: `from app.middleware.error_handling import error_handler` and
\* `app.middleware('http')(error_handler)`
RegisteredMiddleware(outcome) == error_handler(outcome)

InitMiddleware ==
    /\ ServicesIdle
    /\ PayGapIdle
    /\ ScoreIdle
    /\ SigIdle
    /\ ReportIdle
    /\ AuthIdle
    /\ mw_pc = "idle"
    /\ mw_outcome = None
    /\ mw_response = None
    /\ mw_served = 0

\* A request arrives and is routed to a handler
ReceiveRequest ==
    /\ mw_pc \in {"idle", "responded"}
    /\ mw_served < MaxRequests
    /\ mw_outcome' \in {Some(o) : o \in HandlerOutcomes}
    /\ mw_response' = None
    /\ mw_pc' = "handling"
    /\ UNCHANGED mw_served
    /\ UNCHANGED outsideMiddleware

\* The registered middleware awaits call_next and answers
Dispatch ==
    /\ mw_pc = "handling"
    /\ mw_response' = Some(RegisteredMiddleware(mw_outcome[1]))
    /\ mw_pc' = "responded"
    /\ mw_served' = mw_served + 1
    /\ UNCHANGED mw_outcome
    /\ UNCHANGED outsideMiddleware

NextMiddleware == ReceiveRequest \/ Dispatch

SpecMiddleware == InitMiddleware /\ [][NextMiddleware]_vars

Responded == mw_pc = "responded"

\* The status the claim gives to an exception class
StatedStatus(class) ==
    CASE class = "AuthError" -> 401
      [] class = "PermissionError" -> 403
      [] class = "NotFoundError" -> 404
      [] class = "ValidationError" -> 400
      [] OTHER -> 500

\* C19: the response to a request whose handler raised is the JSON body
\* {"detail": message} with status 401, 403, 404 or 400 for AuthError,
\* PermissionError, NotFoundError and ValidationError, and status 500 with
\* the detail "An unexpected error occurred" for any other exception.
C19_ExceptionsMapToStatedResponses ==
    (Responded /\ mw_outcome[1].raised) =>
        LET class == mw_outcome[1].class
        IN  /\ mw_response[1].status_code = StatedStatus(class)
            /\ mw_response[1].content =
                  [detail |-> IF StatedStatus(class) = 500
                              THEN "An unexpected error occurred"
                              ELSE mw_outcome[1].message]

\* ------------------------------------------------------------------------
\* Access tokens (services/auth.py)
\* ------------------------------------------------------------------------

TicksPerSecond == 2  \* the clock counts fractions of a second
MaxTime == 6         \* the clock stops at this tick
MaxDelta == 3        \* a token is issued for 1 .. MaxDelta ticks
MaxTokens == 1       \* tokens issued in one run

\* Subjects passed as subject=..: empty, the stored user's id, an id that
\* names no stored user, and a string that is not an integer
Subjects == {"", "1", "2", "x"}

\* Payloads passed as data=..: an id under "user_id" only, and no id at all
DataDicts == {("user_id" :> "1"), ("role" :> "admin")}

\* The users table of this specification: one stored user, with id 1
Users == (1 :> [username |-> "ann", email |-> "ann@example.com"])

\* int(user_id): the integer a string denotes, None when it raises ValueError
IntLiterals ==
    ("1" :> 1) @@ ("2" :> 2) @@ ("3" :> 3) @@ ("4" :> 4) @@ ("5" :> 5)

int(s) == IF s \in DOMAIN IntLiterals THEN Some(IntLiterals[s]) ELSE None

\* str(user.id)
str(n) == CHOOSE s \in DOMAIN IntLiterals : IntLiterals[s] = n

\* Variant of ExpClaim that rounds the expiry up to the next whole second
ExpClaimRoundedUp(expire) == (expire + TicksPerSecond - 1) \div TicksPerSecond

\* to_encode["exp"] = int(expire.timestamp()): whole seconds, truncated
ExpClaim(expire) == expire \div TicksPerSecond

\* create_access_token(subject=.., data=.., expires_delta=..) called at tick
\* t; data is None or a dict, and a dict is encoded without a "sub" of its
\* own making
create_access_token(subject, data_dict, expires_delta, t) ==
    [payload |-> IF data_dict = None THEN ("sub" :> subject)
                 ELSE data_dict[1],
     exp |-> ExpClaim(t + expires_delta),
     signed |-> TRUE]

\* The Authorization headers a client sends: none, another scheme, a token
\* that was not signed with JWT_SECRET, or a token that was issued
ForgedToken == [payload |-> ("sub" :> "1"), exp |-> MaxTime, signed |-> FALSE]

Bearer(token) == [scheme |-> "Bearer", token |-> token]

Headers(tokens) ==
    {None, Some([scheme |-> "Basic"]), Some(Bearer(ForgedToken))}
        \cup {Some(Bearer(tok)) : tok \in tokens}

\* jwt.decode(token, JWT_SECRET, algorithms=[JWT_ALGO]) at tick t: the
\* signature is verified first; then the exp claim is compared with the
\* current time in whole seconds and the token is expired when exp < now.
jwt_decode(token, t) ==
    IF ~token.signed THEN [error |-> "JWTError"]
    ELSE IF token.exp < t \div TicksPerSecond
    THEN [error |-> "ExpiredSignatureError"]
    ELSE [error |-> "", payload |-> token.payload]

HTTPException(status_code, detail) ==
    [status_code |-> status_code, detail |-> detail, user |-> None]

\* Variant of PayloadUserId that reads the "sub" claim only
PayloadUserIdSubOnly(payload) ==
    IF HasKey(payload, "sub") /\ payload["sub"] # ""
    THEN Some(payload["sub"])
    ELSE None

\* payload.get("sub") or payload.get("user_id"); None when the result is
\* falsy
PayloadUserId(payload) ==
    IF HasKey(payload, "sub") /\ payload["sub"] # ""
    THEN Some(payload["sub"])
    ELSE IF HasKey(payload, "user_id") /\ payload["user_id"] # ""
    THEN Some(payload["user_id"])
    ELSE None

\* get_current_user at tick t against the users table; db_up tells whether
\* the query succeeds. The ValueError of int(), the error of the query and
\* the HTTPException of a missing user are raised inside the try block and
\* are replaced by the HTTPException of the except clause.
get_current_user(authorization, t, db_up, table) ==
    IF authorization = None
    THEN HTTPException(401, "Missing Authorization header")
    ELSE IF authorization[1].scheme # "Bearer"
    THEN HTTPException(401, "Invalid token scheme")
    ELSE LET decoded == jwt_decode(authorization[1].token, t)
         IN  IF decoded.error = "ExpiredSignatureError"
             THEN HTTPException(401, "Token has expired")
             ELSE IF decoded.error = "JWTError"
             THEN HTTPException(401, "Invalid token")
             ELSE LET user_id == PayloadUserId(decoded.payload)
                  IN  IF user_id = None
                      THEN HTTPException(401, "Invalid token payload")
                      ELSE IF \/ int(user_id[1]) = None
                              \/ ~db_up
                              \/ int(user_id[1])[1] \notin DOMAIN table
                      THEN HTTPException(401, "Failed to retrieve user")
                      ELSE [status_code |-> 200, detail |-> "",
                            user |-> int(user_id[1])]

InitAuth ==
    /\ ServicesIdle
    /\ PayGapIdle
    /\ ScoreIdle
    /\ SigIdle
    /\ ReportIdle
    /\ MiddlewareIdle
    /\ clock = 0
    /\ issued = {}
    /\ last_request = None

\* Time passes
Tick ==
    /\ clock < MaxTime
    /\ clock' = clock + 1
    /\ UNCHANGED <<issued, last_request>>
    /\ UNCHANGED outsideAuth

\* A token is issued for a subject or for a data dict; its expiry time is
\* remembered beside it
IssueToken ==
    /\ Cardinality(issued) < MaxTokens
    /\ \E expires_delta \in 1..MaxDelta :
          \E args \in {<<subject, None>> : subject \in Subjects}
                        \cup {<<"", Some(d)>> : d \in
                                 IF expires_delta = 1 THEN DataDicts ELSE {}} :
              issued' = issued \cup
                  {[token |-> create_access_token(args[1], args[2],
                                                  expires_delta, clock),
                    expire |-> clock + expires_delta]}
    /\ UNCHANGED <<clock, last_request>>
    /\ UNCHANGED outsideAuth

\* GET /auth/users/me: the handler runs only when the dependency
\* get_current_user returns a user
RequestUsersMe ==
    /\ \E authorization \in Headers({i.token : i \in issued}),
          db_up \in BOOLEAN :
          LET outcome == get_current_user(authorization, clock, db_up, Users)
          IN  last_request' =
                  Some([authorization |-> authorization,
                        at |-> clock,
                        db_up |-> db_up,
                        status_code |-> outcome.status_code,
                        detail |-> outcome.detail,
                        user |-> outcome.user,
                        handler_reached |-> outcome.user # None])
    /\ UNCHANGED <<clock, issued>>
    /\ UNCHANGED outsideAuth

NextAuth == Tick \/ IssueToken \/ RequestUsersMe

SpecAuth == InitAuth /\ [][NextAuth]_vars

\* The last request presented an issued token whose expiry time is e
PresentedWithExpiry(e) ==
    /\ last_request # None
    /\ last_request[1].authorization # None
    /\ last_request[1].authorization[1].scheme = "Bearer"
    /\ \E i \in issued :
          /\ i.token = last_request[1].authorization[1].token
          /\ i.expire = e

ExpiryTimes == 0..(MaxTime + MaxDelta)

RejectedAsExpired ==
    /\ last_request[1].status_code = 401
    /\ last_request[1].detail = "Token has expired"
    /\ ~last_request[1].handler_reached

\* C20 as stated: a request presenting a token after its expiry time e is
\* answered 401 and does not reach the handler; a request before e is not
\* rejected as expired.
C20_RejectedAfterExpiry ==
    \A e \in ExpiryTimes :
        PresentedWithExpiry(e) =>
            /\ last_request[1].at > e =>
                  /\ last_request[1].status_code = 401
                  /\ ~last_request[1].handler_reached
            /\ last_request[1].at < e =>
                  last_request[1].detail # "Token has expired"

\* The whole second a tick lies in
SecondOf(t) == t \div TicksPerSecond

\* C20 amended: a request presenting a token in a later whole second than
\* that of its expiry time e is rejected as expired with 401 and does not
\* reach the handler; a request in the second of e or earlier, which
\* includes the rest of that second after e, is not rejected as expired.
C20_RejectedFromNextWholeSecond ==
    \A e \in ExpiryTimes :
        PresentedWithExpiry(e) =>
            (RejectedAsExpired <=> SecondOf(last_request[1].at) > SecondOf(e))

\* C20 witness: a token of an existing user, presented after its expiry
\* time but within the same second, reaches the handler
C20_Witness ==
    \E e \in ExpiryTimes :
        /\ PresentedWithExpiry(e)
        /\ last_request[1].at > e
        /\ SecondOf(last_request[1].at) = SecondOf(e)
        /\ last_request[1].status_code = 200
        /\ last_request[1].handler_reached


\* The last request was answered
Answered == last_request # None

\* The last request carried a Bearer token, which is the one named here
PresentedToken == last_request[1].authorization[1].token

CarriesBearer ==
    /\ last_request[1].authorization # None
    /\ last_request[1].authorization[1].scheme = "Bearer"

\* The payload of the presented token carries no "sub", or an empty one
WithoutSub ==
    \/ ~HasKey(PresentedToken.payload, "sub")
    \/ PresentedToken.payload["sub"] = ""

\* The payload carries no "user_id" either
WithoutUserId ==
    \/ ~HasKey(PresentedToken.payload, "user_id")
    \/ PresentedToken.payload["user_id"] = ""

\* The id the presented token names: its "sub", else its "user_id"
NamedId ==
    IF ~WithoutSub THEN PresentedToken.payload["sub"]
    ELSE PresentedToken.payload["user_id"]

\* The named id is the decimal form of the id of a stored user
NamesStoredUser(id) == \E n \in DOMAIN Users : str(n) = id

\* The answer is 401 and the handler was not reached
Answered401 ==
    /\ last_request[1].status_code = 401
    /\ last_request[1].user = None
    /\ ~last_request[1].handler_reached

\* The answer is 200 and the handler received a stored user
AnsweredWithStoredUser ==
    /\ last_request[1].status_code = 200
    /\ last_request[1].handler_reached
    /\ last_request[1].user # None
    /\ last_request[1].user[1] \in DOMAIN Users

MaxRegistrations == 2   \* users registered in one run

Usernames == {"ann", "bob", "cat"}
Emails == {"a@example.com", "b@example.com"}
Roles == {"employee", "admin"}
Passwords == {"pw", "other"}

\* Bodies of POST /auth/register (UserCreate) and of PUT /auth/users/me
\* (UserUpdate, where "" stands for a field that is absent or empty)
UserCreates ==
    [username : Usernames, email : Emails, password : {"pw"}, role : Roles]

UserUpdates == [username : Usernames \cup {""}, email : Emails \cup {""}]

get_password_hash(password) == <<"bcrypt", password>>

verify_password(plain_password, hashed_password) ==
    hashed_password = get_password_hash(plain_password)

\* The lifetime of a token of POST /auth/token, in ticks
ACCESS_TOKEN_EXPIRE == MaxDelta

\* The id the default engine (sqlite, db/database.py line 14) gives to a
\* new row of a table with an INTEGER PRIMARY KEY: one more than the
\* largest id in the table
NextId(rows) ==
    IF DOMAIN rows = {} THEN 1
    ELSE (CHOOSE m \in DOMAIN rows : \A k \in DOMAIN rows : k <= m) + 1

WithoutRow(rows, id) == [k \in DOMAIN rows \ {id} |-> rows[k]]

\* db.query(User).filter(User.<field> == value).first() finds a row
UsernameTaken(rows, username) ==
    \E id \in DOMAIN rows : rows[id].username = username

EmailTaken(rows, email) == \E id \in DOMAIN rows : rows[id].email = email

\* POST /auth/register
register_user(rows, user_data) ==
    IF UsernameTaken(rows, user_data.username)
    THEN [status_code |-> 400, detail |-> "Username already registered",
          rows |-> rows]
    ELSE IF EmailTaken(rows, user_data.email)
    THEN [status_code |-> 400, detail |-> "Email already registered",
          rows |-> rows]
    ELSE [status_code |-> 200, detail |-> "",
          rows |-> rows @@
              (NextId(rows) :>
                  [username |-> user_data.username,
                   email |-> user_data.email,
                   password_hash |-> get_password_hash(user_data.password),
                   role |-> user_data.role])]

\* POST /auth/token at tick t
login(rows, form_data, t) ==
    IF \E id \in DOMAIN rows :
          /\ rows[id].username = form_data.username
          /\ verify_password(form_data.password, rows[id].password_hash)
    THEN LET id == CHOOSE k \in DOMAIN rows :
                       rows[k].username = form_data.username
         IN  [status_code |-> 200, detail |-> "", user_id |-> Some(id),
              access_token |->
                  Some(create_access_token("", Some("sub" :> str(id)),
                                           ACCESS_TOKEN_EXPIRE, t))]
    ELSE [status_code |-> 401, detail |-> "Incorrect username or password",
          user_id |-> None, access_token |-> None]

\* Variant of update_user_info in which the new username reaches the table
\* before the email is checked
update_user_info_flushed(rows, current_user, user_data) ==
    LET new_username ==
            /\ user_data.username # ""
            /\ user_data.username # rows[current_user].username
        new_email ==
            /\ user_data.email # ""
            /\ user_data.email # rows[current_user].email
        renamed ==
            [rows EXCEPT ![current_user].username =
                IF new_username THEN user_data.username ELSE @]
    IN  IF new_username /\ UsernameTaken(rows, user_data.username)
        THEN [status_code |-> 400, detail |-> "Username already taken",
              rows |-> rows]
        ELSE IF new_email /\ EmailTaken(rows, user_data.email)
        THEN [status_code |-> 400, detail |-> "Email already taken",
              rows |-> renamed]
        ELSE [status_code |-> 200, detail |-> "",
              rows |-> [renamed EXCEPT ![current_user].email =
                           IF new_email THEN user_data.email ELSE @]]

\* PUT /auth/users/me for the user get_current_user returned. The session
\* does not autoflush and is closed without a commit when the handler
\* raises, so the table changes at db.commit() only.
update_user_info(rows, current_user, user_data) ==
    LET new_username ==
            /\ user_data.username # ""
            /\ user_data.username # rows[current_user].username
        new_email ==
            /\ user_data.email # ""
            /\ user_data.email # rows[current_user].email
        renamed ==
            [rows EXCEPT ![current_user].username =
                IF new_username THEN user_data.username ELSE @]
    IN  IF new_username /\ UsernameTaken(rows, user_data.username)
        THEN [status_code |-> 400, detail |-> "Username already taken",
              rows |-> rows]
        ELSE IF new_email /\ EmailTaken(rows, user_data.email)
        THEN [status_code |-> 400, detail |-> "Email already taken",
              rows |-> rows]
        ELSE [status_code |-> 200, detail |-> "",
              rows |-> [renamed EXCEPT ![current_user].email =
                           IF new_email THEN user_data.email ELSE @]]

\* DELETE /auth/users/{user_id} for the user get_current_user returned;
\* allow_admin answers 403 unless that user is an admin
delete_user(rows, current_user, user_id) ==
    IF rows[current_user].role # "admin"
    THEN [status_code |-> 403, detail |-> "Admin privileges required",
          rows |-> rows]
    ELSE IF user_id \notin DOMAIN rows
    THEN [status_code |-> 404, detail |-> "User not found", rows |-> rows]
    ELSE [status_code |-> 200, detail |-> "",
          rows |-> WithoutRow(rows, user_id)]

\* The Authorization headers sent to the /auth routes: none, or a token
\* that was issued
Authorizations == {None} \cup {Some(Bearer(i.token)) : i \in issued}

outsideUsers == <<coreVars, resumeVars, embedVars, storeVars, alertVars>>

InitUsers ==
    /\ CoreIdle
    /\ AuthIdle
    /\ ServicesIdle

\* The answer to a request: what get_current_user resolved the presented
\* token to (a row id and the person who registered that row), and the
\* status of the response
Answer(op, authorization, auth, status_code, detail) ==
    Some([op |-> op,
          authorization |-> authorization,
          user |-> auth.user,
          person |-> IF auth.user = None THEN 0
                     ELSE users.person[auth.user[1]],
          status_code |-> status_code,
          detail |-> detail])

Anonymous == [user |-> None]

RegisterUser ==
    /\ users.registrations < MaxRegistrations
    /\ \E user_data \in UserCreates :
          LET r == register_user(users.rows, user_data)
              created == r.status_code = 200
              n == users.registrations + 1
          IN  /\ users' =
                     [rows |-> r.rows,
                      person |-> IF created
                                 THEN users.person @@ (NextId(users.rows) :> n)
                                 ELSE users.person,
                      registrations |-> IF created THEN n
                                        ELSE users.registrations]
              /\ last_request' =
                     Answer("register", None, Anonymous, r.status_code,
                            r.detail)
    /\ UNCHANGED <<clock, issued>>
    /\ UNCHANGED outsideUsers

Login ==
    /\ Cardinality(issued) < MaxTokens
    /\ \E username \in Usernames, password \in Passwords :
          LET r == login(users.rows,
                         [username |-> username, password |-> password],
                         clock)
          IN  /\ issued' =
                     IF r.status_code = 200
                     THEN issued \cup
                            {[token |-> r.access_token[1],
                              expire |-> clock + ACCESS_TOKEN_EXPIRE,
                              person |-> users.person[r.user_id[1]]]}
                     ELSE issued
              /\ last_request' =
                     Answer("login", None, Anonymous, r.status_code, r.detail)
    /\ UNCHANGED <<clock, users>>
    /\ UNCHANGED outsideUsers

GetCurrentUserInfo ==
    /\ \E authorization \in Authorizations :
          LET auth == get_current_user(authorization, clock, TRUE, users.rows)
          IN  last_request' =
                  Answer("me", authorization, auth, auth.status_code,
                         auth.detail)
    /\ UNCHANGED <<clock, issued, users>>
    /\ UNCHANGED outsideUsers

UpdateUserInfo ==
    /\ \E authorization \in Authorizations, user_data \in UserUpdates :
          LET auth == get_current_user(authorization, clock, TRUE, users.rows)
          IN  IF auth.user = None
              THEN /\ users' = users
                   /\ last_request' =
                          Answer("update", authorization, auth,
                                 auth.status_code, auth.detail)
              ELSE LET r == update_user_info(users.rows, auth.user[1],
                                             user_data)
                   IN  /\ users' = [users EXCEPT !.rows = r.rows]
                       /\ last_request' =
                              Answer("update", authorization, auth,
                                     r.status_code, r.detail)
    /\ UNCHANGED <<clock, issued>>
    /\ UNCHANGED outsideUsers

DeleteUser ==
    /\ \E authorization \in Authorizations, user_id \in 1..MaxRegistrations :
          LET auth == get_current_user(authorization, clock, TRUE, users.rows)
          IN  IF auth.user = None
              THEN /\ users' = users
                   /\ last_request' =
                          Answer("delete", authorization, auth,
                                 auth.status_code, auth.detail)
              ELSE LET r == delete_user(users.rows, auth.user[1], user_id)
                   IN  /\ users' =
                              [users EXCEPT
                                  !.rows = r.rows,
                                  !.person = [k \in DOMAIN r.rows |->
                                                 users.person[k]]]
                       /\ last_request' =
                              Answer("delete", authorization, auth,
                                     r.status_code, r.detail)
    /\ UNCHANGED <<clock, issued>>
    /\ UNCHANGED outsideUsers

NextUsers ==
    RegisterUser \/ Login \/ GetCurrentUserInfo \/ UpdateUserInfo
        \/ DeleteUser

SpecUsers == InitUsers /\ [][NextUsers]_vars

\* The last request presented a token that POST /auth/token issued to the
\* person p
PresentedTokenOf(p) ==
    /\ last_request # None
    /\ last_request[1].authorization # None
    /\ \E i \in issued :
          /\ i.token = last_request[1].authorization[1].token
          /\ i.person = p

Persons == 1..(MaxRegistrations + 1)

\* The row the person p registered is still in the table
Stored(p) == \E id \in DOMAIN users.rows : users.person[id] = p

\* C22: a request that presents a token issued to a user is resolved by
\* get_current_user to that user and to no other user: to the user as long
\* as its row is stored, and never to the row of a user who registered
\* separately.
C22_TokenResolvesToItsUserOnly ==
    \A p \in Persons :
        PresentedTokenOf(p) =>
            /\ last_request[1].user # None => last_request[1].person = p
            /\ (Stored(p) /\ last_request[1].op # "delete")
                  => last_request[1].person = p

\* C28: no two stored users share a username or an email, and a request
\* answered 400 leaves the users table as it was.
C28_UniqueAndRejectedChangesNothing ==
    /\ [](\A i, j \in DOMAIN users.rows :
              i # j => /\ users.rows[i].username # users.rows[j].username
                       /\ users.rows[i].email # users.rows[j].email)
    /\ [][(last_request' # None /\ last_request'[1].status_code = 400)
              => users' = users]_vars

\* C28 witness: two users are stored and an update that named the other
\* user's email was answered 400
C28_Witness ==
    /\ Cardinality(DOMAIN users.rows) = 2
    /\ last_request # None
    /\ last_request[1].op = "update"
    /\ last_request[1].status_code = 400
    /\ last_request[1].detail = "Email already taken"

\* ------------------------------------------------------------------------
\* Resumes and job matching (routes/resume_fit.py,
\* services/resume_service.py, db/database.py, db/config.py)
\* ------------------------------------------------------------------------

MaxJobs == 2        \* rows of the jobs table
PoolSize == 2       \* pool_size of the connection pool
MaxCalls == 3       \* requests and service calls in one run

\* Python values of the row columns: a string, which may hold the JSON text
\* of a vector, a list of numbers, None, a datetime and an ndarray
PyStr(s) == [t |-> "str", s |-> s, vec |-> <<>>]
PyJson(vec) == [t |-> "str", s |-> "json", vec |-> vec]
PyList(vec) == [t |-> "list", s |-> "", vec |-> vec]
PyNone == [t |-> "NoneType", s |-> "", vec |-> <<>>]
PyDatetime == [t |-> "datetime", s |-> "", vec |-> <<>>]

\* bool(value)
PyTruthy(x) ==
    CASE x.t = "str" -> x.s # ""
      [] x.t = "list" -> x.vec # <<>>
      [] x.t = "NoneType" -> FALSE
      [] OTHER -> TRUE

\* value.split(",") exists for strings only
HasSplit(x) == x.t = "str"

\* value.tobytes() exists for arrays only
HasToBytes(x) == x.t = "ndarray"

\* The columns of the tables in the order of db/models.py, which is the
\* order of SELECT *
ResumeColumns ==
    <<"id", "user_id", "resume_text", "skills", "vector_embedding",
      "created_at">>

JobColumns ==
    <<"id", "title", "description", "required_skills", "department",
      "created_at">>

\* A row as cursor() returns it: a tuple, indexed from 0 in the code
TupleRow(columns, row) == [i \in 1..Len(columns) |-> row[columns[i]]]

At(tuple, i) == tuple[i + 1]

\* The vectors of this model have integer lengths, so that their cosine
\* is a rational number
Vectors == {<<1, 0>>, <<0, 1>>, <<3, 4>>, <<4, 3>>}

Norm(vec) == CHOOSE r \in 0..SumSq(vec) : r * r = SumSq(vec)

\* embed_text of a job description: the texts of this model and their
\* vectors
DescriptionVectors ==
    ("rust" :> <<1, 0>>) @@ ("go" :> <<0, 1>>) @@ ("python" :> <<3, 4>>)
        @@ ("sql" :> <<4, 3>>)

embed_description(text) ==
    IF text.t = "str" /\ text.s \in DOMAIN DescriptionVectors
    THEN PyList(DescriptionVectors[text.s])
    ELSE PyList(<<>>)

\* json.loads(value): raises for None and for text that is not JSON
json_loads(x) ==
    IF x.t = "str" /\ x.s = "json"
    THEN [raised |-> "", value |-> PyList(x.vec)]
    ELSE [raised |-> IF x.t = "str" THEN "JSONDecodeError" ELSE "TypeError",
          value |-> PyNone]

\* calculate_similarity(embedding1, embedding2): 0.0 when an argument is
\* falsy, the cosine of two lists of numbers, and a TypeError of numpy when
\* an argument is a piece of text
calculate_similarity(embedding1, embedding2) ==
    IF ~PyTruthy(embedding1) \/ ~PyTruthy(embedding2)
    THEN [raised |-> "", value |-> R(0)]
    ELSE IF embedding1.t # "list" \/ embedding2.t # "list"
    THEN [raised |-> "TypeError", value |-> R(0)]
    ELSE LET norm1 == Norm(embedding1.vec)
             norm2 == Norm(embedding2.vec)
         IN  IF norm1 = 0 \/ norm2 = 0
             THEN [raised |-> "", value |-> R(0)]
             ELSE [raised |-> "",
                   value |-> RNorm(SumProd(embedding1.vec, embedding2.vec),
                                   norm1 * norm2)]

\* list.sort(key=match_score, reverse=True): stable, so that matches of
\* equal score keep their order
RECURSIVE InsertDesc(_, _)
InsertDesc(x, s) ==
    IF s = <<>> THEN <<x>>
    ELSE IF RGt(x.match_score, Head(s).match_score)
    THEN <<x>> \o s
    ELSE <<Head(s)>> \o InsertDesc(x, Tail(s))

RECURSIVE SortDesc(_)
SortDesc(s) ==
    IF s = <<>> THEN <<>>
    ELSE InsertDesc(s[Len(s)], SortDesc(SubSeq(s, 1, Len(s) - 1)))

\* matches[:top_k]
Slice(s, top_k) == SubSeq(s, 1, Min(top_k, Len(s)))

\* connection_pool.get_connection() raises PoolError when every connection
\* of the pool is checked out
PoolExhausted(db) == db.checked_out >= PoolSize

ServerError(db, raised) ==
    [status_code |-> 500, error |-> raised, body |-> <<>>, db |-> db]

Leaked(db) == [db EXCEPT !.checked_out = @ + 1]

\* SELECT * FROM resumes WHERE id = %s AND user_id = %s
OwnedResume(db, resume_id, user_id) ==
    /\ resume_id \in DOMAIN db.resumes
    /\ db.resumes[resume_id].user_id = user_id

\* One turn of the loop of match_resume for a resume and a job as tuples
RouteMatch(resume, job) ==
    LET similarity == calculate_similarity(At(resume, 4), At(job, 3))
    IN  IF similarity.raised # ""
        THEN [raised |-> similarity.raised]
        ELSE IF ~HasSplit(At(resume, 3)) \/ ~HasSplit(At(job, 5))
        THEN [raised |-> "AttributeError"]
        ELSE [raised |-> "",
              match |-> [job_id |-> At(job, 0),
                         match_score |-> similarity.value]]

\* The loop of match_resume: the matches, unless a turn raises
RECURSIVE RouteMatches(_, _)
RouteMatches(resume, jobs) ==
    IF jobs = <<>> THEN [raised |-> "", matches |-> <<>>]
    ELSE LET first == RouteMatch(resume, TupleRow(JobColumns, Head(jobs)))
             rest == RouteMatches(resume, Tail(jobs))
         IN  IF first.raised # "" THEN [raised |-> first.raised]
             ELSE IF rest.raised # "" THEN rest
             ELSE [raised |-> "", matches |-> <<first.match>> \o rest.matches]

MatchRows(resume_id, matches) ==
    [i \in 1..Len(matches) |->
        [job_id |-> matches[i].job_id, resume_id |-> resume_id,
         match_score |-> matches[i].match_score]]

\* POST /resume/{resume_id}/match. The connection is closed on the 404
\* path and after the loop; an exception in between leaves it checked out
\* and the inserts uncommitted.
match_resume(db, resume_id, top_k, current_user) ==
    IF PoolExhausted(db) THEN ServerError(db, "PoolError")
    ELSE IF ~OwnedResume(db, resume_id, current_user)
    THEN [status_code |-> 404, error |-> "", body |-> <<>>, db |-> db]
    ELSE LET resume == TupleRow(ResumeColumns, db.resumes[resume_id])
             looped == RouteMatches(resume, db.jobs)
         IN  IF looped.raised # ""
             THEN ServerError(Leaked(db), looped.raised)
             ELSE [status_code |-> 200, error |-> "",
                   body |-> Slice(SortDesc(looped.matches), top_k),
                   db |-> [db EXCEPT !.job_matches =
                              @ \o MatchRows(resume_id, looped.matches)]]

\* DELETE /resume/{resume_id}
delete_resume(db, resume_id, current_user) ==
    IF PoolExhausted(db) THEN ServerError(db, "PoolError")
    ELSE IF ~OwnedResume(db, resume_id, current_user)
    THEN [status_code |-> 404, error |-> "", body |-> <<>>, db |-> db]
    ELSE [status_code |-> 200, error |-> "", body |-> <<>>,
          db |-> [db EXCEPT !.resumes =
                     [k \in DOMAIN db.resumes \ {resume_id} |->
                         db.resumes[k]]]]

\* POST /resume/upload. embed_text returns a list, and the insert
\* statement calls vector.tobytes() after the connection was taken.
upload_resume(db, filename, current_user) ==
    IF filename \notin {"cv.pdf", "cv.doc", "cv.docx"}
    THEN [status_code |-> 400, error |-> "", body |-> <<>>, db |-> db]
    ELSE LET vector == embed_description(PyStr("python"))
             resume_id == IF DOMAIN db.resumes = {} THEN 1
                          ELSE (CHOOSE m \in DOMAIN db.resumes :
                                   \A k \in DOMAIN db.resumes : k <= m) + 1
         IN  IF PoolExhausted(db) THEN ServerError(db, "PoolError")
             ELSE IF ~HasToBytes(vector)
             THEN ServerError(Leaked(db), "AttributeError")
             ELSE [status_code |-> 200, error |-> "", body |-> <<>>,
                   db |-> [db EXCEPT !.resumes = @ @@
                              (resume_id :>
                                  [id |-> resume_id,
                                   user_id |-> current_user,
                                   resume_text |-> PyStr("python"),
                                   skills |-> PyStr("python"),
                                   vector_embedding |-> PyStr("hex"),
                                   created_at |-> PyNone])]]

\* DatabaseOperations.execute_query: the connection it takes is closed in
\* the finally block, so that only an exhausted pool makes it fail here;
\* the statement itself fails when the driver rejects a parameter
execute_query(db, accepted) ==
    IF PoolExhausted(db) THEN "PoolError"
    ELSE IF ~accepted THEN "ProgrammingError"
    ELSE ""

\* One turn of the loop of match_jobs for a resume and a job as dicts
ServiceMatch(resume, job) ==
    LET resume_vector == json_loads(resume["vector_embedding"])
        job_vector == embed_description(job["description"])
        similarity == calculate_similarity(resume_vector.value, job_vector)
    IN  IF resume_vector.raised # ""
        THEN [raised |-> resume_vector.raised]
        ELSE IF similarity.raised # ""
        THEN [raised |-> similarity.raised]
        ELSE [raised |-> "",
              match |-> [job_id |-> job["id"],
                         match_score |-> similarity.value]]

\* The loop of match_jobs. Each turn stores its match with a statement of
\* its own, which is committed at once; list_accepted tells whether the
\* driver accepts the list in skills_matched as a parameter.
RECURSIVE ServiceMatches(_, _, _)
ServiceMatches(resume, jobs, list_accepted) ==
    IF jobs = <<>> THEN [raised |-> "", matches |-> <<>>]
    ELSE LET first == ServiceMatch(resume, Head(jobs))
             rest == ServiceMatches(resume, Tail(jobs), list_accepted)
         IN  IF first.raised # ""
             THEN [raised |-> first.raised, matches |-> <<>>]
             ELSE IF ~list_accepted
             THEN [raised |-> "ProgrammingError", matches |-> <<>>]
             ELSE [raised |-> rest.raised,
                   matches |-> <<first.match>> \o rest.matches]

\* ResumeService.match_jobs(resume_id, top_k)
match_jobs(db, resume_id, top_k, list_accepted) ==
    IF execute_query(db, TRUE) # ""
    THEN ServerError(db, execute_query(db, TRUE))
    ELSE IF resume_id \notin DOMAIN db.resumes
    THEN [status_code |-> 200, error |-> "", body |-> <<>>, db |-> db]
    ELSE LET looped == ServiceMatches(db.resumes[resume_id], db.jobs,
                                      list_accepted)
             stored == [db EXCEPT !.job_matches =
                           @ \o MatchRows(resume_id, looped.matches)]
         IN  IF looped.raised # ""
             THEN ServerError(stored, looped.raised)
             ELSE [status_code |-> 200, error |-> "",
                   body |-> Slice(SortDesc(looped.matches), top_k),
                   db |-> stored]

\* The tables at the start: a resume of user 1 with a stored vector, a
\* resume of user 2 without one, and up to MaxJobs jobs
StoredResumes ==
    (1 :> [id |-> 1, user_id |-> 1, resume_text |-> PyStr("python"),
           skills |-> PyStr("python"),
           vector_embedding |-> PyJson(<<3, 4>>), created_at |-> PyNone])
    @@ (2 :> [id |-> 2, user_id |-> 2, resume_text |-> PyStr("rust"),
              skills |-> PyStr("rust"),
              vector_embedding |-> PyNone, created_at |-> PyDatetime])

JobRow(id, description) ==
    [id |-> id, title |-> PyStr("engineer"),
     description |-> PyStr(description),
     required_skills |-> PyStr("python"), department |-> PyNone,
     created_at |-> PyDatetime]

JobTables ==
    {[i \in 1..Len(descriptions) |-> JobRow(i, descriptions[i])] :
        descriptions \in SeqsUpTo(DOMAIN DescriptionVectors, MaxJobs)}

ResumeUsers == {1, 2}
ResumeIds == {1, 2, 3}
TopKs == 1..(MaxJobs + 1)

outsideResume ==
    <<coreVars, authVars, usersVars, embedVars, storeVars, alertVars>>

InitResume ==
    /\ CoreIdle
    /\ AuthIdle
    /\ UsersIdle
    /\ EmbedIdle
    /\ StoreIdle
    /\ AlertsIdle
    /\ \E jobs \in JobTables :
          resume_db = [resumes |-> StoredResumes, jobs |-> jobs,
                       job_matches |-> <<>>, checked_out |-> 0, calls |-> 0]
    /\ resume_response = None

\* The response to a request, with the request beside it
Served(op, current_user, resume_id, top_k, r) ==
    /\ resume_db' = [r.db EXCEPT !.calls = @ + 1]
    /\ resume_response' =
           Some([op |-> op, current_user |-> current_user,
                 resume_id |-> resume_id, top_k |-> top_k,
                 status_code |-> r.status_code, error |-> r.error,
                 body |-> r.body])

UploadResume ==
    /\ resume_db.calls < MaxCalls
    /\ \E filename \in {"cv.pdf", "cv.txt"}, current_user \in ResumeUsers :
          Served("upload", current_user, 0, 0,
                 upload_resume(resume_db, filename, current_user))
    /\ UNCHANGED outsideResume

MatchResume ==
    /\ resume_db.calls < MaxCalls
    /\ \E resume_id \in ResumeIds, top_k \in TopKs,
          current_user \in ResumeUsers :
          Served("match", current_user, resume_id, top_k,
                 match_resume(resume_db, resume_id, top_k, current_user))
    /\ UNCHANGED outsideResume

DeleteResume ==
    /\ resume_db.calls < MaxCalls
    /\ \E resume_id \in ResumeIds, current_user \in ResumeUsers :
          Served("delete", current_user, resume_id, 0,
                 delete_resume(resume_db, resume_id, current_user))
    /\ UNCHANGED outsideResume

MatchJobs ==
    /\ resume_db.calls < MaxCalls
    /\ \E resume_id \in ResumeIds, top_k \in TopKs,
          list_accepted \in BOOLEAN :
          Served("match_jobs", 0, resume_id, top_k,
                 match_jobs(resume_db, resume_id, top_k, list_accepted))
    /\ UNCHANGED outsideResume

NextResume == UploadResume \/ MatchResume \/ DeleteResume \/ MatchJobs

SpecResume == InitResume /\ [][NextResume]_vars

\* The last call asked for the matches of a resume that is stored and, on
\* the route, owned by the caller
MatchAsked ==
    /\ resume_response # None
    /\ \/ /\ resume_response[1].op = "match"
          /\ OwnedResume(resume_db, resume_response[1].resume_id,
                         resume_response[1].current_user)
       \/ /\ resume_response[1].op = "match_jobs"
          /\ resume_response[1].resume_id \in DOMAIN resume_db.resumes

\* The cosine of the stored vector of the matched resume and the vector of
\* a job description; 0 when there is no stored vector
ScoreOf(job) ==
    LET stored ==
            resume_db.resumes[resume_response[1].resume_id].vector_embedding
    IN  calculate_similarity(PyList(stored.vec),
                             embed_description(job["description"])).value

\* C23: a call for the matches of a resume returns a list of at most top_k
\* matches, as many as there are jobs when these are fewer, in the order of
\* non-increasing match_score, and no job left out has a higher match_score
\* than a job in the list.
C23_ReturnsTopKByScore ==
    MatchAsked =>
        LET body == resume_response[1].body
            jobs == resume_db.jobs
            included == {body[i].job_id : i \in DOMAIN body}
        IN  /\ resume_response[1].status_code = 200
            /\ Len(body) = Min(resume_response[1].top_k, Len(jobs))
            /\ \A i \in 1..(Len(body) - 1) :
                  RGe(body[i].match_score, body[i + 1].match_score)
            /\ \A j \in DOMAIN jobs :
                  jobs[j]["id"] \notin included =>
                      \A i \in DOMAIN body :
                          RLe(ScoreOf(jobs[j]), body[i].match_score)

\* C24: a step that answers a match or delete request for a resume that is
\* not stored or not owned by the caller answers 404 and changes neither
\* the resumes nor the job_matches table, and a step that removes a resume
\* answers a delete request of its owner.
C24_UnownedIs404AndChangesNothing ==
    [][/\ (/\ resume_response' # None
           /\ resume_response'[1].op \in {"match", "delete"}
           /\ ~OwnedResume(resume_db, resume_response'[1].resume_id,
                           resume_response'[1].current_user))
          => /\ resume_response'[1].status_code = 404
             /\ resume_db'.resumes = resume_db.resumes
             /\ resume_db'.job_matches = resume_db.job_matches
       /\ (DOMAIN resume_db'.resumes # DOMAIN resume_db.resumes)
          => /\ resume_response'[1].op = "delete"
             /\ OwnedResume(resume_db, resume_response'[1].resume_id,
                            resume_response'[1].current_user)]_vars

\* C29: after every request and every call no connection of the pool is
\* checked out, and never more connections than the pool holds.
C29_EveryConnectionIsClosed ==
    /\ resume_db.checked_out <= PoolSize
    /\ resume_response # None => resume_db.checked_out = 0

\* ------------------------------------------------------------------------
\* Embeddings (services/embedding_service.py)
\* ------------------------------------------------------------------------

MaxVectorSize == 3  \* VECTOR_SIZE is 1 .. MaxVectorSize
MaxBatch == 2       \* longest list passed to embed_batch
DigestLen == 2      \* bytes of a digest, 32 for SHA-256

\* The texts embedded: empty, blank, and two words
Texts == {"", "  ", "ab", "cd"}

\* text.strip()
strip(text) == IF text = "  " THEN "" ELSE text

\* hashlib.sha256(text.encode("utf-8")).digest(), cut to DigestLen bytes
Digest(text) ==
    CASE text = "ab" -> <<3, 4>>
      [] text = "cd" -> <<0, 5>>
      [] text = "  " -> <<6, 8>>
      [] OTHER -> <<1, 1>>

\* (digest * repeats)[:size]
Repeated(digest, repeats, size) ==
    [i \in 1..Min(size, repeats * Len(digest)) |->
        digest[((i - 1) % Len(digest)) + 1]]

\* A vector is returned with the function that produced it; a component
\* byte / norm of a normalised vector is the pair of the byte and the
\* square of the norm
Vector(by, vec) == [by |-> by, vec |-> vec]

\* _fallback_vector(text)
_fallback_vector(text, VECTOR_SIZE) ==
    IF text = ""
    THEN Vector("fallback", [i \in 1..VECTOR_SIZE |-> <<0, 1>>])
    ELSE LET digest == Digest(text)
             repeats == (VECTOR_SIZE + Len(digest) - 1) \div Len(digest)
             raw == Repeated(digest, repeats, VECTOR_SIZE)
             norm_sq == SumSq(raw)
         IN  Vector("fallback",
                    [i \in DOMAIN raw |->
                        IF norm_sq > 0 THEN <<raw[i], norm_sq>>
                        ELSE <<raw[i], 1>>])

\* model.encode(text, convert_to_numpy=True).tolist()
encode(text) == Vector("model", <<<<Len(Digest(text)), 1>>>>)

\* _get_model(): the model, or None, and the globals it leaves behind.
\* importable tells whether the import statement of line 29 succeeds.
_get_model(globals) ==
    IF globals._model # None
    THEN [model |-> globals._model, globals |-> globals]
    ELSE LET available ==
                 IF globals._SENTENCE_AVAILABLE = None
                 THEN Some(globals.importable)
                 ELSE globals._SENTENCE_AVAILABLE
             resolved == [globals EXCEPT !._SENTENCE_AVAILABLE = available]
         IN  IF ~available[1]
             THEN [model |-> None, globals |-> resolved]
             ELSE [model |-> Some("SentenceTransformer"),
                   globals |-> [resolved EXCEPT
                                   !._model = Some("SentenceTransformer")]]

\* Variant of embed_text that returns the fallback vector while the
\* availability is unresolved and resolves it for the calls that follow
embed_text_resolving_late(globals, text) ==
    IF text = "" \/ strip(text) = ""
    THEN [result |-> Vector("empty", <<>>), globals |-> globals]
    ELSE IF globals._SENTENCE_AVAILABLE = Some(TRUE)
    THEN LET got == _get_model(globals)
         IN  IF got.model = None
             THEN [result |-> _fallback_vector(text, globals.VECTOR_SIZE),
                   globals |-> got.globals]
             ELSE [result |-> encode(text), globals |-> got.globals]
    ELSE [result |-> _fallback_vector(text, globals.VECTOR_SIZE),
          globals |-> _get_model(globals).globals]

\* embed_text(text): the vector, and the globals the call leaves behind.
\* _get_model is called only when _SENTENCE_AVAILABLE is already true.
embed_text(globals, text) ==
    IF text = "" \/ strip(text) = ""
    THEN [result |-> Vector("empty", <<>>), globals |-> globals]
    ELSE IF globals._SENTENCE_AVAILABLE = Some(TRUE)
    THEN LET got == _get_model(globals)
         IN  IF got.model = None
             THEN [result |-> _fallback_vector(text, globals.VECTOR_SIZE),
                   globals |-> got.globals]
             ELSE [result |-> encode(text), globals |-> got.globals]
    ELSE [result |-> _fallback_vector(text, globals.VECTOR_SIZE),
          globals |-> globals]

\* embed_batch(texts): the list of vectors, and the globals left behind
embed_batch(globals, texts) ==
    IF texts = <<>>
    THEN [result |-> <<>>, globals |-> globals]
    ELSE IF globals._SENTENCE_AVAILABLE = Some(TRUE)
    THEN LET got == _get_model(globals)
         IN  IF got.model = None
             THEN [result |->
                       [i \in DOMAIN texts |->
                           _fallback_vector(texts[i], globals.VECTOR_SIZE)],
                   globals |-> got.globals]
             ELSE [result |-> [i \in DOMAIN texts |-> encode(texts[i])],
                   globals |-> got.globals]
    ELSE [result |->
              [i \in DOMAIN texts |->
                  _fallback_vector(texts[i], globals.VECTOR_SIZE)],
          globals |-> globals]

outsideEmbed ==
    <<coreVars, authVars, usersVars, resumeVars, storeVars, alertVars>>

\* The module as imported: nothing resolved, in a process where the import
\* of sentence-transformers succeeds or fails
InitEmbed ==
    /\ CoreIdle
    /\ AuthIdle
    /\ UsersIdle
    /\ ResumeIdle
    /\ StoreIdle
    /\ AlertsIdle
    /\ \E importable \in BOOLEAN, size \in 1..MaxVectorSize :
          embedding = [_SENTENCE_AVAILABLE |-> None, _model |-> None,
                       importable |-> importable, VECTOR_SIZE |-> size]
    /\ embed_calls = [first |-> <<>>, last |-> None]

\* A call of embed_text; the vector of the first call for each text is
\* remembered
EmbedText ==
    /\ \E text \in Texts :
          LET call == embed_text(embedding, text)
          IN  /\ embedding' = call.globals
              /\ embed_calls' =
                     [first |-> IF text \in DOMAIN embed_calls.first
                                THEN embed_calls.first
                                ELSE embed_calls.first @@
                                         (text :> call.result),
                      last |-> Some([fn |-> "embed_text", text |-> text,
                                     texts |-> <<>>,
                                     result |-> <<call.result>>])]
    /\ UNCHANGED outsideEmbed

EmbedBatch ==
    /\ \E texts \in SeqsUpTo(Texts, MaxBatch) :
          LET call == embed_batch(embedding, texts)
          IN  /\ embedding' = call.globals
              /\ embed_calls' =
                     [embed_calls EXCEPT
                         !.last = Some([fn |-> "embed_batch", text |-> "",
                                        texts |-> texts,
                                        result |-> call.result])]
    /\ UNCHANGED outsideEmbed

NextEmbed == EmbedText \/ EmbedBatch

SpecEmbed == InitEmbed /\ [][NextEmbed]_vars

\* The last call, its texts and the vectors it returned, one for each
\* text that is not blank (embed_text returns [] for a blank text)
Embedded == embed_calls.last # None

LastTexts ==
    IF embed_calls.last[1].fn = "embed_text"
    THEN <<embed_calls.last[1].text>>
    ELSE embed_calls.last[1].texts

\* C25: whenever sentence-transformers can be imported, a call of
\* embed_text or embed_batch returns the encoding of the model for every
\* text that is not blank, and the SHA-256 fallback vector is returned
\* only when the library cannot be imported.
C25_ModelEncodesWhenImportable ==
    Embedded =>
        \A i \in DOMAIN LastTexts :
            LET vector == embed_calls.last[1].result[i]
            IN  /\ (embedding.importable /\ strip(LastTexts[i]) # "")
                      => vector.by = "model"
                /\ vector.by = "fallback" => ~embedding.importable

\* C27: a call embed_text(t) returns the vector that the first call
\* embed_text(t) returned, whatever calls came between them; the vector of
\* an empty or blank text is []; and a fallback vector that embed_text or
\* embed_batch returns has exactly VECTOR_SIZE components.
C27_EmbeddingIsDeterministic ==
    Embedded =>
        /\ embed_calls.last[1].fn = "embed_text" =>
              /\ embed_calls.last[1].result[1] =
                     embed_calls.first[embed_calls.last[1].text]
              /\ strip(embed_calls.last[1].text) = "" =>
                     embed_calls.last[1].result[1].vec = <<>>
        /\ \A i \in DOMAIN LastTexts :
              embed_calls.last[1].result[i].by = "fallback" =>
                  Len(embed_calls.last[1].result[i].vec)
                      = embedding.VECTOR_SIZE

\* C27 witness: embed_text was called again for a text that is not blank,
\* after a call of embed_batch and calls for other texts, in a process in
\* which sentence-transformers can be imported
C27_Witness ==
    /\ Embedded
    /\ embedding.importable
    /\ embedding.VECTOR_SIZE > DigestLen
    /\ embed_calls.last[1].fn = "embed_text"
    /\ strip(embed_calls.last[1].text) # ""
    /\ Cardinality(DOMAIN embed_calls.first) = Cardinality(Texts)
    /\ embed_calls.last[1].result[1].by = "fallback"

\* ------------------------------------------------------------------------
\* Vector storage (services/qdrant_utils.py)
\* ------------------------------------------------------------------------

MaxPoints == 2      \* calls of store_vector in one run

CollectionNames == {"resumes", "jobs"}

\* client.get_collections().collections: the names the server reports;
\* the in-memory client reports none
get_collections(store) ==
    IF store._QDRANT_AVAILABLE THEN DOMAIN store.collections ELSE {}

\* client.recreate_collection(collection_name=name, ..): the collection is
\* dropped if it exists and created empty
recreate_collection(store, name) ==
    [store EXCEPT !.collections =
        [n \in DOMAIN store.collections \cup {name} |->
            IF n = name THEN <<>> ELSE store.collections[n]]]

\* ensure_collection(name): the error raised, if any, and the store left
\* behind. Without qdrant_client the names VectorParams and Distance are
\* None, and the argument Distance.COSINE raises before the call is made.
ensure_collection(store, name) ==
    IF name \in get_collections(store)
    THEN [raised |-> "", store |-> store]
    ELSE IF ~store._QDRANT_AVAILABLE
    THEN [raised |-> "AttributeError", store |-> store]
    ELSE [raised |-> "", store |-> recreate_collection(store, name)]

\* client.upsert(collection_name, points=[point])
upsert(store, name, point) ==
    [store EXCEPT !.collections =
        [n \in DOMAIN store.collections \cup {name} |->
            IF n = name
            THEN (IF n \in DOMAIN store.collections
                  THEN store.collections[n] ELSE <<>>) \o <<point>>
            ELSE store.collections[n]]]

\* store_vector(collection_name, vector, payload); point_id stands for the
\* uuid4 drawn by the call
store_vector(store, collection_name, vector, payload, point_id) ==
    LET ensured == ensure_collection(store, collection_name)
    IN  IF ensured.raised # ""
        THEN [raised |-> ensured.raised, value |-> <<>>,
              store |-> ensured.store]
        ELSE [raised |-> "", value |-> <<point_id>>,
              store |-> upsert(ensured.store, collection_name,
                               [id |-> point_id, vector |-> vector,
                                payload |-> payload])]

\* client.search(..): the points of the collection by decreasing cosine
\* with the query vector, cut to limit
Scored(points, query_vector) ==
    [i \in DOMAIN points |->
        [id |-> points[i].id, payload |-> points[i].payload,
         match_score |->
             calculate_similarity(PyList(query_vector),
                                  PyList(points[i].vector)).value]]

\* search_vector(collection_name, vector, top_k)
search_vector(store, collection_name, vector, top_k) ==
    LET ensured == ensure_collection(store, collection_name)
    IN  IF ensured.raised # ""
        THEN [raised |-> ensured.raised, value |-> <<>>,
              store |-> ensured.store]
        ELSE [raised |-> "",
              value |-> Slice(SortDesc(
                            Scored(ensured.store.collections[collection_name],
                                   vector)), top_k),
              store |-> ensured.store]

\* delete_vector(collection_name, point_id): the server answers an error
\* for a collection it does not hold; the in-memory client creates it
delete_vector(store, collection_name, point_id) ==
    IF collection_name \notin DOMAIN store.collections
    THEN IF store._QDRANT_AVAILABLE
         THEN [raised |-> "UnexpectedResponse", value |-> <<>>,
               store |-> store]
         ELSE [raised |-> "", value |-> <<>>,
               store |-> recreate_collection(store, collection_name)]
    ELSE LET points == store.collections[collection_name]
         IN  [raised |-> "", value |-> <<>>,
              store |-> [store EXCEPT !.collections[collection_name] =
                            SelectSeq(points,
                                      LAMBDA p : p.id # point_id)]]

outsideStore ==
    <<coreVars, authVars, usersVars, resumeVars, embedVars, alertVars>>

\* The module as imported, with qdrant_client installed or not
InitStore ==
    /\ CoreIdle
    /\ AuthIdle
    /\ UsersIdle
    /\ ResumeIdle
    /\ EmbedIdle
    /\ AlertsIdle
    /\ \E available \in BOOLEAN :
          vector_store = [_QDRANT_AVAILABLE |-> available,
                          collections |-> <<>>]
    /\ store_calls = [handed |-> {}, n |-> 0, last |-> None]

\* A call of store_vector: the point handed over is remembered, with the
\* number of the call as its id
StoreVector ==
    /\ store_calls.n < MaxPoints
    /\ \E name \in CollectionNames, vector \in Vectors :
          LET point_id == store_calls.n + 1
              call == store_vector(vector_store, name, vector, "payload",
                                   point_id)
          IN  /\ vector_store' = call.store
              /\ store_calls' =
                     [handed |-> store_calls.handed \cup
                                    {[collection |-> name, id |-> point_id]},
                      n |-> point_id,
                      last |-> Some([fn |-> "store_vector",
                                     collection |-> name,
                                     raised |-> call.raised,
                                     value |-> call.value])]
    /\ UNCHANGED outsideStore

SearchVector ==
    /\ \E name \in CollectionNames, vector \in Vectors,
          top_k \in {1, MaxPoints} :
          LET call == search_vector(vector_store, name, vector, top_k)
          IN  /\ vector_store' = call.store
              /\ store_calls' =
                     [store_calls EXCEPT
                         !.last = Some([fn |-> "search_vector",
                                        collection |-> name,
                                        raised |-> call.raised,
                                        value |-> call.value])]
    /\ UNCHANGED outsideStore

DeleteVector ==
    /\ \E name \in CollectionNames, point_id \in 1..MaxPoints :
          LET call == delete_vector(vector_store, name, point_id)
          IN  /\ vector_store' = call.store
              /\ store_calls' =
                     [store_calls EXCEPT
                         !.handed = @ \ {[collection |-> name,
                                          id |-> point_id]},
                         !.last = Some([fn |-> "delete_vector",
                                        collection |-> name,
                                        raised |-> call.raised,
                                        value |-> call.value])]
    /\ UNCHANGED outsideStore

NextStore == StoreVector \/ SearchVector \/ DeleteVector

SpecStore == InitStore /\ [][NextStore]_vars

\* search_vector with a top_k that covers the collection returns the point
Retrievable(h) ==
    LET call == search_vector(vector_store, h.collection, <<1, 0>>,
                              MaxPoints)
    IN  /\ call.raised = ""
        /\ \E i \in DOMAIN call.value : call.value[i].id = h.id

\* C26: with the server and with the in-memory client alike, every point
\* handed to store_vector and not deleted by delete_vector since is
\* retrievable by search_vector, whatever calls of store_vector and
\* search_vector were made since.
C26_StoredStaysRetrievable == \A h \in store_calls.handed : Retrievable(h)

\* ------------------------------------------------------------------------
\* Alert cooldown (services/fairness_utils.py, class AlertManager)
\* ------------------------------------------------------------------------

MaxAlerts == 2      \* alerts in one call of send_alerts
Cooldown == 2       \* config["cooldown_period"], in ticks
MaxClock == 3       \* the clock stops here

\* The alerts built by check_metric and create_drift_alert
Alerts ==
    { ("type" :> "metric") @@ ("metric" :> "gap"),
      ("type" :> "drift") }

\* f"{alert['type']}_{alert.get('metric', '')}"
AlertKey(alert) ==
    alert["type"] \o "_" \o
        (IF HasKey(alert, "metric") THEN alert["metric"] ELSE "")

\* The channels an alert goes out on; _send_email_alert does nothing and
\* _send_slack_alert swallows its errors
Channels(config) ==
    (IF config.email THEN {"email"} ELSE {}) \cup
    (IF config.slack_webhook THEN {"slack"} ELSE {})

Least(a, b) == IF a <= b THEN a ELSE b

\* What is kept of the dispatches of a key: when the latest one was
\* recorded, on which channels it went, and the shortest time that
\* ever lay between the recording of one dispatch and the test of the next
Dispatched(dispatched, key, checked, recorded, channels) ==
    [recorded |-> recorded, channels |-> channels,
     closest |->
         IF ~HasKey(dispatched, key)
         THEN None
         ELSE LET gap == checked - dispatched[key].recorded
              IN  IF dispatched[key].closest = None
                  THEN Some(gap)
                  ELSE Some(Least(gap, dispatched[key].closest[1]))]

\* One pass of the loop of send_alerts. state holds the manager and the
\* log; elapsed.before ticks pass until the cooldown test reads the clock
\* and elapsed.sending more until the time of the alert is recorded.
SendAlert_recording_suppressed(state, alert, elapsed) ==
    LET manager == state.manager
        alert_key == AlertKey(alert)
        last_time == IF HasKey(manager.last_alert_time, alert_key)
                     THEN Some(manager.last_alert_time[alert_key])
                     ELSE None
        checked == manager.now + elapsed.before
        recorded == checked + elapsed.sending
        fresh == ~HasKey(state.log.dispatched, alert_key)
    IN  IF /\ last_time # None
           /\ checked - last_time[1] < manager.config.cooldown_period
        THEN [manager |-> [manager EXCEPT
                  !.now = checked,
                  !.last_alert_time = (alert_key :> checked) @@ @],
              log |-> [state.log EXCEPT
                  !.last = Append(@, [key |-> alert_key, fresh |-> fresh,
                                      dispatched |-> FALSE])]]
        ELSE [manager |-> [manager EXCEPT
                  !.now = recorded,
                  !.last_alert_time = (alert_key :> recorded) @@ @],
              log |-> [dispatched |->
                           (alert_key :> Dispatched(state.log.dispatched,
                                alert_key, checked, recorded,
                                Channels(manager.config)))
                           @@ state.log.dispatched,
                       last |-> Append(state.log.last,
                                    [key |-> alert_key, fresh |-> fresh,
                                     dispatched |-> TRUE])]]

SendAlert(state, alert, elapsed) ==
    LET manager == state.manager
        alert_key == AlertKey(alert)
        last_time == IF HasKey(manager.last_alert_time, alert_key)
                     THEN Some(manager.last_alert_time[alert_key])
                     ELSE None
        checked == manager.now + elapsed.before
        recorded == checked + elapsed.sending
        fresh == ~HasKey(state.log.dispatched, alert_key)
    IN  IF /\ last_time # None
           /\ checked - last_time[1] < manager.config.cooldown_period
        THEN [manager |-> [manager EXCEPT !.now = checked],
              log |-> [state.log EXCEPT
                  !.last = Append(@, [key |-> alert_key, fresh |-> fresh,
                                      dispatched |-> FALSE])]]
        ELSE [manager |-> [manager EXCEPT
                  !.now = recorded,
                  !.last_alert_time = (alert_key :> recorded) @@ @],
              log |-> [dispatched |->
                           (alert_key :> Dispatched(state.log.dispatched,
                                alert_key, checked, recorded,
                                Channels(manager.config)))
                           @@ state.log.dispatched,
                       last |-> Append(state.log.last,
                                    [key |-> alert_key, fresh |-> fresh,
                                     dispatched |-> TRUE])]]

RECURSIVE SendAlertsFrom(_, _, _, _)
SendAlertsFrom(state, alerts, elapsed, i) ==
    IF i > Len(alerts)
    THEN state
    ELSE SendAlertsFrom(SendAlert(state, alerts[i], elapsed[i]),
                        alerts, elapsed, i + 1)

\* send_alerts(alerts): the loop over the batch
send_alerts(state, alerts, elapsed) ==
    SendAlertsFrom([state EXCEPT !.log.last = <<>>], alerts, elapsed, 1)

\* The clock ticks at most once during one pass of the loop
Elapsed == {e \in [before : 0..1, sending : 0..1] : e.before + e.sending <= 1}

RECURSIVE Total(_, _)
Total(elapsed, i) ==
    IF i > Len(elapsed)
    THEN 0
    ELSE elapsed[i].before + elapsed[i].sending + Total(elapsed, i + 1)

outsideAlerts ==
    <<coreVars, authVars, usersVars, resumeVars, embedVars, storeVars>>

\* AlertManager(alert_config): no alert was sent yet
InitAlerts ==
    /\ CoreIdle
    /\ AuthIdle
    /\ UsersIdle
    /\ ResumeIdle
    /\ EmbedIdle
    /\ StoreIdle
    /\ \E email \in BOOLEAN, slack_webhook \in BOOLEAN :
          alert_manager =
              [config |-> [cooldown_period |-> Cooldown,
                           email |-> email,
                           slack_webhook |-> slack_webhook],
               last_alert_time |-> <<>>,
               now |-> 0]
    /\ alert_log = [dispatched |-> <<>>, last |-> <<>>]

\* A call of send_alerts with a batch of alerts
SendAlerts ==
    /\ \E n \in 1..MaxAlerts :
       \E alerts \in [1..n -> Alerts], elapsed \in [1..n -> Elapsed] :
          /\ alert_manager.now + Total(elapsed, 1) <= MaxClock
          /\ LET sent == send_alerts([manager |-> alert_manager,
                                      log |-> alert_log], alerts, elapsed)
             IN  /\ alert_manager' = sent.manager
                 /\ alert_log' = sent.log
    /\ UNCHANGED outsideAlerts

\* Time passes between two calls
Wait ==
    /\ alert_manager.now < MaxClock
    /\ alert_manager' = [alert_manager EXCEPT !.now = @ + 1]
    /\ alert_log' = [alert_log EXCEPT !.last = <<>>]
    /\ UNCHANGED outsideAlerts

NextAlerts == SendAlerts \/ Wait

SpecAlerts == InitAlerts /\ [][NextAlerts]_vars

\* C30: on one AlertManager, two dispatches of the same key (type and
\* metric) are at least cooldown_period apart, also within one batch; an
\* alert whose key was never dispatched is dispatched; and the time kept
\* for a key is that of its latest dispatch, so an alert that was
\* suppressed does not extend the cooldown.
C30_CooldownHoldsPerKey ==
    /\ \A key \in DOMAIN alert_log.dispatched :
          LET closest == alert_log.dispatched[key].closest
          IN  closest # None =>
                  closest[1] >= alert_manager.config.cooldown_period
    /\ \A i \in DOMAIN alert_log.last :
          alert_log.last[i].fresh => alert_log.last[i].dispatched
    /\ DOMAIN alert_manager.last_alert_time = DOMAIN alert_log.dispatched
    /\ \A key \in DOMAIN alert_log.dispatched :
          alert_manager.last_alert_time[key] =
              alert_log.dispatched[key].recorded

\* One batch named a key twice within the cooldown: the first alert went
\* out and the second was suppressed; and a key went out a second time
C30_Witness ==
    /\ Len(alert_log.last) = 2
    /\ alert_log.last[1].key = alert_log.last[2].key
    /\ alert_log.last[1].dispatched
    /\ ~alert_log.last[2].dispatched
    /\ \E key \in DOMAIN alert_log.dispatched :
          alert_log.dispatched[key].closest # None

====
